---- MODULE Spec2Model ----
(***************************************************************************)
(* Model of the par-level engine of par-delta-dashboard                    *)
(* (src/dashboard/par_engine.py): the cadence scheduler, the usage         *)
(* metrics, the par calculator with its year-ago comparison, and the       *)
(* record normalizer of _load_ndcp_data; with it the hourly-labour upload  *)
(* (src/scripts/upload/upload_hourly_labour.py) and the OAuth login of     *)
(* src/future_update/auth_utils.py.                                        *)
(*                                                                         *)
(* Dates are proleptic Gregorian ordinals (date.toordinal(): 0001-01-01 is *)
(* day 1, a Monday).  All timestamps of the engine are midnights, so a     *)
(* datetime is modelled by the ordinal of its date.                        *)
(***************************************************************************)
EXTENDS Integers, Sequences, FiniteSets, TLC

VARIABLES
    today,      \* cadence: the date handed to get_order_context
    ctx,        \* cadence: the order context it returned (NoCtx before the call)
    raw,        \* par: the table _load_ndcp_data returned (normalized transactions)
    call,       \* par: the arguments of the get_par_for_next_order call in progress
    result,     \* par: what the call returned or raised
    all_data,   \* normalizer: the rows the paginated read accumulated
    norm,       \* normalizer: the frame after each pass of the normalizer
    period,     \* metrics: the arguments of the _compute_metrics_for_period call
    metrics_df, \* metrics: the frame it returned
    store_rows, \* loader: the number of rows of the table in the store
    load,       \* loader: the cached loader call in progress
    cache,      \* loader: the entries of st.cache_data, by key
    now,        \* loader: the clock, in seconds
    calls,      \* loader: history of the loader calls made
    clears,     \* loader: history, the number of st.cache_data.clear() so far
    delivery_from,  \* delivery: the date handed to _next_delivery_after
    next_delivery,  \* delivery: the date it returned (0 before the call)
    table,          \* upload: the rows of the labour table in the store, with their counts
    has_index,      \* upload: whether the table has the unique index on the key columns
    upload,         \* upload: the upload_table call in progress and its history
    session_state,  \* login: st.session_state of one browser session
    query_params,   \* login: st.query_params of the page
    auth            \* login: tokens issued, widgets rendered, history of the script runs

loadVars == <<store_rows, load, cache, now, calls, clears>>

deliveryVars == <<delivery_from, next_delivery>>

uploadVars == <<table, has_index, upload>>

authVars == <<session_state, query_params, auth>>

laterVars == <<deliveryVars, uploadVars, authVars>>

vars == <<today, ctx, raw, call, result, all_data, norm, period, metrics_df, loadVars, laterVars>>

(***************************************************************************)
(* Calendar                                                                *)
(***************************************************************************)
IsLeap(y) == (y % 4 = 0) /\ ((y % 100 # 0) \/ (y % 400 = 0))

DaysInMonth(y, m) ==
    IF m = 2 THEN (IF IsLeap(y) THEN 29 ELSE 28)
    ELSE IF m \in {4, 6, 9, 11} THEN 30 ELSE 31

DaysBeforeYear(y) ==
    LET p == y - 1 IN p * 365 + (p \div 4) - (p \div 100) + (p \div 400)

\* days before the first of month m in a common year
DaysBeforeMonthCommon == <<0, 31, 59, 90, 120, 151, 181, 212, 243, 273, 304, 334>>

DaysBeforeMonth(y, m) ==
    DaysBeforeMonthCommon[m] + (IF m > 2 /\ IsLeap(y) THEN 1 ELSE 0)

\* date(y, m, d).toordinal()
Ymd2Ord(y, m, d) == DaysBeforeYear(y) + DaysBeforeMonth(y, m) + d

\* date.fromordinal(n): the year, month and day of ordinal n
OrdYear(n) ==
    LET n0   == n - 1
        n400 == n0 \div 146097
        r400 == n0 % 146097
        n100 == r400 \div 36524
        r100 == r400 % 36524
        n4   == r100 \div 1461
        r4   == r100 % 1461
        n1   == r4 \div 365
        year == n400 * 400 + n100 * 100 + n4 * 4 + n1 + 1
    IN  IF n1 = 4 \/ n100 = 4 THEN year - 1 ELSE year

\* the month of day-of-year k (1-based) of year y
MonthOfYearDay(y, k) ==
    CHOOSE m \in 1..12 :
        DaysBeforeMonth(y, m) < k /\ k <= DaysBeforeMonth(y, m) + DaysInMonth(y, m)

\* date.isoformat(): the year, month and day written out
Iso(n) ==
    LET y == OrdYear(n)
        k == n - DaysBeforeYear(y)
        m == MonthOfYearDay(y, k)
    IN  <<y, m, k - DaysBeforeMonth(y, m)>>

\* date.weekday(): Monday = 0 ... Sunday = 6
Weekday(n) == (n + 6) % 7

(***************************************************************************)
(* Scheduling / cycle logic                                                *)
(***************************************************************************)
TUE == 1
SAT == 5
MON == 0
THU == 3

Min2(a, b) == IF a <= b THEN a ELSE b
Max2(a, b) == IF a >= b THEN a ELSE b

\* a plausible slip: the day offset without the wrap-around
NextWeekdayNoWrap(from_date, target_weekday) ==
    from_date + (target_weekday - Weekday(from_date))

\* a plausible slip: the next such weekday strictly after from_date
NextWeekdayStrict(from_date, target_weekday) ==
    LET days_ahead == (target_weekday - Weekday(from_date)) % 7
    IN  from_date + (IF days_ahead = 0 THEN 7 ELSE days_ahead)

\* a plausible slip: from_date.day (the day of the month) for from_date.weekday()
NextWeekdayByDayOfMonth(from_date, target_weekday) ==
    from_date + ((target_weekday - Iso(from_date)[3]) % 7)

_next_weekday(from_date, target_weekday) ==
    LET days_ahead == (target_weekday - Weekday(from_date)) % 7
    IN  from_date + days_ahead

\* a plausible slip: a lead time of three days
ComputeDeliveryDatePlus3(order_dt, order_weekday) == order_dt + 3

_compute_delivery_date(order_dt, order_weekday) ==
    IF order_weekday = TUE THEN order_dt + 2 ELSE order_dt + 2

\* a plausible slip: the two branches swapped
NextDeliveryAfterSwapped(delivery_dt) ==
    LET wd == Weekday(delivery_dt)
    IN  IF wd = MON THEN delivery_dt + 4
        ELSE IF wd = THU THEN delivery_dt + 3
        ELSE delivery_dt + 7

\* a plausible slip: the later of the two candidates in the fallback
NextDeliveryAfterLater(delivery_dt) ==
    LET wd == Weekday(delivery_dt)
        thu == _next_weekday(delivery_dt, THU)
        mon == _next_weekday(delivery_dt, MON)
        next_thu == IF thu = delivery_dt THEN delivery_dt + 7 ELSE thu
        next_mon == IF mon = delivery_dt THEN delivery_dt + 7 ELSE mon
    IN  IF wd = MON THEN delivery_dt + 3
        ELSE IF wd = THU THEN delivery_dt + 4
        ELSE Max2(next_thu, next_mon)

_next_delivery_after(delivery_dt) ==
    LET wd == Weekday(delivery_dt)
        thu == _next_weekday(delivery_dt, THU)
        mon == _next_weekday(delivery_dt, MON)
        next_thu == IF thu = delivery_dt THEN delivery_dt + 7 ELSE thu
        next_mon == IF mon = delivery_dt THEN delivery_dt + 7 ELSE mon
    IN  IF wd = MON THEN delivery_dt + 3
        ELSE IF wd = THU THEN delivery_dt + 4
        ELSE Min2(next_thu, next_mon)

\* a plausible slip: the later of the two order days
NextOrderDateLatest(d) == Max2(_next_weekday(d, TUE), _next_weekday(d, SAT))

next_order_date_of(d) == Min2(_next_weekday(d, TUE), _next_weekday(d, SAT))

get_order_context(d) ==
    LET next_order_date == next_order_date_of(d)
        order_weekday   == Weekday(next_order_date)
        delivery_date   == _compute_delivery_date(next_order_date, order_weekday)
        next_delivery_date == _next_delivery_after(delivery_date)
        cycle_days      == Max2(next_delivery_date - delivery_date, 1)
    IN  [ today                        |-> d,
          next_order_date              |-> next_order_date,
          next_delivery_date_for_order |-> delivery_date,
          next_delivery_after_that     |-> next_delivery_date,
          cycle_days                   |-> cycle_days,
          cadence_type                 |-> "TWICE_WEEKLY",
          order_weekday                |-> order_weekday,
          delivery_weekday             |-> Weekday(delivery_date) ]

NoCtx == [cadence_type |-> "NONE"]

(***************************************************************************)
(* IEEE-754 binary64 arithmetic, as numpy/pandas float64 columns compute.  *)
(* A natural number of any size is a sequence of bits, least significant   *)
(* first.  A finite double is [neg, man, exp] with value                   *)
(* (-1)^neg * man * 2^exp, man a 53-bit natural (top bit set), or the zero *)
(* [neg, <<>>, 0]; NaN is a value of its own.  Results are rounded to      *)
(* nearest, ties to even.  Exponents stay far from the overflow and        *)
(* subnormal ranges for the quantities of this program.                    *)
(***************************************************************************)
MantBits == 53
LimbBits == 14

BitAt(b, i) == IF i >= 1 /\ i <= Len(b) THEN b[i] ELSE 0

RECURSIVE TopBit(_, _)
TopBit(b, i) == IF i = 0 THEN 0 ELSE IF b[i] = 1 THEN i ELSE TopBit(b, i - 1)

BTrim(b) == SubSeq(b, 1, TopBit(b, Len(b)))

RECURSIVE BFromInt(_)
BFromInt(n) == IF n = 0 THEN <<>> ELSE <<n % 2>> \o BFromInt(n \div 2)

RECURSIVE BToIntFrom(_, _)
BToIntFrom(b, i) == IF i > Len(b) THEN 0 ELSE b[i] + 2 * BToIntFrom(b, i + 1)

BToInt(b) == BToIntFrom(b, 1)

BShl(b, k) == [i \in 1..(Len(b) + k) |-> IF i <= k THEN 0 ELSE b[i - k]]

BShr(b, k) == SubSeq(b, k + 1, Len(b))

RECURSIVE AddFrom(_, _, _, _, _)
AddFrom(a, b, i, c, n) ==
    IF i > n THEN <<>>
    ELSE LET s == BitAt(a, i) + BitAt(b, i) + c
         IN  <<s % 2>> \o AddFrom(a, b, i + 1, s \div 2, n)

BAdd(a, b) == BTrim(AddFrom(a, b, 1, 0, Max2(Len(a), Len(b)) + 1))

\* a - b for a >= b
RECURSIVE SubFrom(_, _, _, _, _)
SubFrom(a, b, i, c, n) ==
    IF i > n THEN <<>>
    ELSE LET s == BitAt(a, i) - BitAt(b, i) - c
         IN  <<s % 2>> \o SubFrom(a, b, i + 1, IF s < 0 THEN 1 ELSE 0, n)

BSub(a, b) == BTrim(SubFrom(a, b, 1, 0, Len(a)))

RECURSIVE BLessFrom(_, _, _)
BLessFrom(a, b, i) ==
    IF i = 0 THEN FALSE
    ELSE IF BitAt(a, i) # BitAt(b, i) THEN BitAt(a, i) < BitAt(b, i)
    ELSE BLessFrom(a, b, i - 1)

BLess(a, b) == BLessFrom(a, b, Max2(Len(a), Len(b)))

\* product of two mantissas, through 14-bit limbs so that every partial sum
\* stays below 2^31
RECURSIVE LimbFrom(_, _, _)
LimbFrom(b, lo, k) ==
    IF k = LimbBits THEN 0 ELSE BitAt(b, lo + k) * (2 ^ k) + LimbFrom(b, lo, k + 1)

BitsToLimbs(b) ==
    [j \in 1..((Len(b) + LimbBits - 1) \div LimbBits) |-> LimbFrom(b, LimbBits * (j - 1) + 1, 0)]

LimbsToBits(x) ==
    [i \in 1..(LimbBits * Len(x)) |->
        (x[((i - 1) \div LimbBits) + 1] \div (2 ^ ((i - 1) % LimbBits))) % 2]

RECURSIVE ColumnSum(_, _, _, _)
ColumnSum(x, y, k, i) ==
    IF i > Len(x) THEN 0
    ELSE (IF k + 1 - i >= 1 /\ k + 1 - i <= Len(y) THEN x[i] * y[k + 1 - i] ELSE 0)
         + ColumnSum(x, y, k, i + 1)

RECURSIVE Propagate(_, _, _, _)
Propagate(x, y, k, carry) ==
    IF k > Len(x) + Len(y) THEN <<>>
    ELSE LET s == ColumnSum(x, y, k, 1) + carry
         IN  <<s % (2 ^ LimbBits)>> \o Propagate(x, y, k + 1, s \div (2 ^ LimbBits))

BMul(a, b) ==
    IF a = <<>> \/ b = <<>> THEN <<>>
    ELSE BTrim(LimbsToBits(Propagate(BitsToLimbs(a), BitsToLimbs(b), 1, 0)))

NaN == [nan |-> TRUE]

IsNaN(x) == "nan" \in DOMAIN x

FZero == [neg |-> FALSE, man |-> <<>>, exp |-> 0]

IsZero(x) == x.man = <<>>

RECURSIVE AnyBit(_, _)
AnyBit(b, i) == IF i <= 0 THEN FALSE ELSE IF b[i] = 1 THEN TRUE ELSE AnyBit(b, i - 1)

\* the double nearest to (-1)^neg * n * 2^e, ties to even
RoundToDouble(neg, n, e) ==
    LET b == BTrim(n)
        L == Len(b)
    IN  IF L = 0 THEN [neg |-> neg, man |-> <<>>, exp |-> 0]
        ELSE IF L <= MantBits
        THEN [neg |-> neg, man |-> BShl(b, MantBits - L), exp |-> e - (MantBits - L)]
        ELSE LET drop   == L - MantBits
                 kept   == BShr(b, drop)
                 guard  == b[drop]
                 sticky == AnyBit(b, drop - 1)
                 up     == guard = 1 /\ (sticky \/ kept[1] = 1)
                 r      == IF up THEN BAdd(kept, <<1>>) ELSE kept
             IN  IF Len(r) > MantBits
                 THEN [neg |-> neg, man |-> BShr(r, 1), exp |-> e + drop + 1]
                 ELSE [neg |-> neg, man |-> r, exp |-> e + drop]

\* float(n) for an integer n
FFromInt(n) == RoundToDouble(n < 0, BFromInt(IF n < 0 THEN -n ELSE n), 0)

\* the fraction bits of r / b (0 <= r < b), most significant first, k of them,
\* followed by one sticky bit for the remainder
RECURSIVE FracBits(_, _, _)
FracBits(r, b, k) ==
    IF k = 0 THEN <<IF r # 0 THEN 1 ELSE 0>>
    ELSE LET t == 2 * r
         IN  <<IF t >= b THEN 1 ELSE 0>> \o FracBits(IF t >= b THEN t - b ELSE t, b, k - 1)

Reverse(s) == [i \in 1..Len(s) |-> s[Len(s) + 1 - i]]

DivGuardBits == 80

\* float(a) / float(b) for integers a and b # 0 (both exactly representable)
FDivInt(a, b) ==
    LET neg == (a < 0) # (b < 0)
        ua  == IF a < 0 THEN -a ELSE a
        ub  == IF b < 0 THEN -b ELSE b
        frac == Reverse(FracBits(ua % ub, ub, DivGuardBits))
    IN  IF a = 0 THEN [neg |-> neg, man |-> <<>>, exp |-> 0]
        ELSE RoundToDouble(neg, frac \o BFromInt(ua \div ub), -(DivGuardBits + 1))

FMul(x, y) ==
    IF IsNaN(x) \/ IsNaN(y) THEN NaN
    ELSE IF IsZero(x) \/ IsZero(y)
    THEN [neg |-> x.neg # y.neg, man |-> <<>>, exp |-> 0]
    ELSE RoundToDouble(x.neg # y.neg, BMul(x.man, y.man), x.exp + y.exp)

FAdd(x, y) ==
    IF IsNaN(x) \/ IsNaN(y) THEN NaN
    ELSE IF IsZero(x) THEN (IF IsZero(y) THEN [neg |-> x.neg /\ y.neg, man |-> <<>>, exp |-> 0] ELSE y)
    ELSE IF IsZero(y) THEN x
    ELSE LET e  == Min2(x.exp, y.exp)
             nx == BShl(x.man, x.exp - e)
             ny == BShl(y.man, y.exp - e)
         IN  IF x.neg = y.neg THEN RoundToDouble(x.neg, BAdd(nx, ny), e)
             ELSE IF BLess(nx, ny) THEN RoundToDouble(y.neg, BSub(ny, nx), e)
             ELSE IF BLess(ny, nx) THEN RoundToDouble(x.neg, BSub(nx, ny), e)
             ELSE FZero

\* int(np.ceil(x)) for a finite double below 2^31 in magnitude
FCeilInt(x) ==
    IF IsZero(x) THEN 0
    ELSE IF x.exp >= 0 THEN (IF x.neg THEN -1 ELSE 1) * BToInt(BShl(x.man, x.exp))
    ELSE LET k    == -x.exp
             int  == IF k >= Len(x.man) THEN 0 ELSE BToInt(BShr(x.man, k))
             frac == AnyBit(x.man, Min2(k, Len(x.man)))
         IN  IF x.neg THEN -int ELSE int + (IF frac THEN 1 ELSE 0)

\* x.fillna(0)
FillNa0(x) == IF IsNaN(x) THEN FZero ELSE x

(***************************************************************************)
(* Metrics + par calculation (current + last year)                         *)
(*                                                                         *)
(* A data frame is the set of its rows where the row order is fixed by a   *)
(* unique key (groupby and merge sort by key), and a sequence where the    *)
(* order is the upstream order (raw).  A missing string is NA; a missing   *)
(* number is the empty tuple and a present one the 1-tuple of its value;   *)
(* a float64 rate is a double or NaN.                                      *)
(***************************************************************************)
NA == "<NA>"
NoNum == <<>>
Num(n) == <<n>>

\* the values of the bounded model: stores, items, quantities, call arguments
MaxTxns == 2
NumTodays == 4

Stores == {"A", "B"}
Items == {10023, 10024}
Qtys == {0, 90}
ItemNames == {"Glazed"}
Categories == {"DONUT"}
Filters == {"", "A", "C"}
Windows == {3, 90}
SafetyPercents == {10, 20}

\* configurations and quantities at and past the edges: windows of no or negative
\* length, discounts, a safety percent below -100, credit lines
EdgeWindows == {-3, 0, 3}
\* window lengths at and next to the length of a year
YearWindows == {1, 365, 366, 367}
EdgeSafetyPercents == {-150, -10, 20}
EdgeQtys == {-90, 90}

FirstToday == Ymd2Ord(2024, 2, 29)
TodayDays == FirstToday .. (FirstToday + NumTodays - 1)
TxnDates == {Ymd2Ord(2024, 2, 28), Ymd2Ord(2023, 2, 27)}

\* a plausible slip: a year taken as 365 days
YearsAgo365(n) == n - 365

\* pd.Timestamp(t) - pd.DateOffset(years=1): same month and day a year earlier,
\* the day clipped to the end of the month
YearsAgo(n) ==
    LET ymd == Iso(n)
        y   == ymd[1] - 1
    IN  Ymd2Ord(y, ymd[2], Min2(ymd[3], DaysInMonth(y, ymd[2])))

RECURSIVE SumsUpTo(_)
SumsUpTo(n) ==
    IF n = 0 THEN {0}
    ELSE SumsUpTo(n - 1) \cup {t + q : t \in SumsUpTo(n - 1), q \in Qtys \cup EdgeQtys}

PossibleTotals == SumsUpTo(MaxTxns)

\* g["total_qty"] / float(window_days)
daily_usage_rate_of(total_qty, window_days) == FDivInt(total_qty, window_days)

\* the window lengths a division can be made by: 0 is left out, float(0) as a divisor
\* gives inf or NaN, which no call reaches
Divisors == (Windows \cup EdgeWindows \cup YearWindows) \ {0}

DailyUsageRate == [t \in PossibleTotals, w \in Divisors |-> daily_usage_rate_of(t, w)]

\* the group mean of qty_effective
avg_qty_of(total_qty, n) == FDivInt(total_qty, n)

AvgQty == [t \in PossibleTotals, n \in 1..MaxTxns |-> avg_qty_of(t, n)]

RECURSIVE SumQty(_)
SumQty(rows) == IF rows = <<>> THEN 0 ELSE Head(rows).qty_effective + SumQty(Tail(rows))

RECURSIVE MinDate(_)
MinDate(rows) ==
    IF Len(rows) = 1 THEN rows[1].effective_date
    ELSE Min2(rows[1].effective_date, MinDate(Tail(rows)))

RECURSIVE MaxDate(_)
MaxDate(rows) ==
    IF Len(rows) = 1 THEN rows[1].effective_date
    ELSE Max2(rows[1].effective_date, MaxDate(Tail(rows)))

\* GroupBy "last": the last value of the group, in frame order, that is not null
RECURSIVE LastItemName(_, _)
LastItemName(rows, i) ==
    IF i = 0 THEN NA
    ELSE IF rows[i].item_name # NA THEN rows[i].item_name ELSE LastItemName(rows, i - 1)

RECURSIVE LastCategory(_, _)
LastCategory(rows, i) ==
    IF i = 0 THEN NA
    ELSE IF rows[i].category # NA THEN rows[i].category ELSE LastCategory(rows, i - 1)

\* a plausible slip: the window closed at its end
InWindowClosed(r, start_dt, end_dt) ==
    r.effective_date >= start_dt /\ r.effective_date <= end_dt

InWindow(r, start_dt, end_dt) ==
    r.effective_date >= start_dt /\ r.effective_date < end_dt

_compute_metrics_for_period(df, start_dt, end_dt, window_days) ==
    LET dff  == SelectSeq(df, LAMBDA r : InWindow(r, start_dt, end_dt))
        keys == {<<dff[i].pc_number, dff[i].item_number>> : i \in 1..Len(dff)}
        grp(k) == SelectSeq(dff, LAMBDA r : r.pc_number = k[1] /\ r.item_number = k[2])
    IN  { LET g == grp(k)
              total == SumQty(g)
          IN  [ pc_number        |-> k[1],
                item_number      |-> k[2],
                item_name        |-> LastItemName(g, Len(g)),
                category         |-> LastCategory(g, Len(g)),
                total_qty        |-> total,
                avg_qty          |-> AvgQty[total, Len(g)],
                num_orders       |-> Len(g),
                first_date       |-> MinDate(g),
                last_date        |-> MaxDate(g),
                window_days      |-> window_days,
                daily_usage_rate |-> DailyUsageRate[total, window_days] ]
          : k \in keys }

\* safety_mult = 1.0 + (float(safety_percent) / 100.0)
safety_mult_of(safety_percent) == FAdd(FFromInt(1), FDivInt(safety_percent, 100))

SafetyMult == [sp \in SafetyPercents \cup EdgeSafetyPercents |-> safety_mult_of(sp)]

\* a plausible slip: the result not clipped at 0
ParQuantityNoClip(rate, cycle_days, safety_percent) ==
    FCeilInt(FMul(FMul(FillNa0(rate), FFromInt(cycle_days)), SafetyMult[safety_percent]))

\* np.ceil(rate.fillna(0) * cycle_days.fillna(0) * safety_mult)
\*     .fillna(0).clip(lower=0).astype(int)
par_quantity_of(rate, cycle_days, safety_percent) ==
    LET x == FMul(FMul(FillNa0(rate), FFromInt(cycle_days)), SafetyMult[safety_percent])
    IN  Max2(FCeilInt(x), 0)

\* the cycle lengths of the contexts, and the 0 that fillna(0) gives a row without one
CycleValues == {get_order_context(d).cycle_days : d \in TodayDays} \cup {0}

RateValues == {DailyUsageRate[t, w] : t \in PossibleTotals, w \in Divisors} \cup {NaN}

ParQuantity ==
    [r \in RateValues, c \in CycleValues, sp \in SafetyPercents \cup EdgeSafetyPercents |->
        par_quantity_of(r, c, sp)]

KeysOf(metrics) == {<<m.pc_number, m.item_number>> : m \in metrics}

MetricAt(metrics, k) == CHOOSE m \in metrics : m.pc_number = k[1] /\ m.item_number = k[2]

\* a plausible slip: how="left"
MergeKeysLeft(cur_metrics, ly_metrics) == KeysOf(cur_metrics)

\* pd.merge(cur_metrics, ly_metrics[...], on=["pc_number", "item_number"], how="outer")
MergeKeys(cur_metrics, ly_metrics) == KeysOf(cur_metrics) \cup KeysOf(ly_metrics)

\* a plausible slip: the early return for two empty periods left out
NoEarlyReturn(cur_metrics, ly_metrics) == FALSE

\* if cur_metrics.empty and ly_metrics.empty
BothEmpty(cur_metrics, ly_metrics) == cur_metrics = {} /\ ly_metrics = {}

\* the optional store filter; a falsy pc_number (None, "") filters nothing
FilterStore(metrics, pc_number) ==
    IF pc_number # "" THEN {m \in metrics : m.pc_number = pc_number} ELSE metrics

\* one row of merged on the three paths of the merge: cur_metrics empty (the copy of
\* ly_metrics keeps its item_name, category and window_days), ly_metrics empty, and
\* the outer merge (a key of ly_metrics alone has no column of cur_metrics)
MergedRow(cur_metrics, ly_metrics, k) ==
    LET in_cur == k \in KeysOf(cur_metrics)
        in_ly  == k \in KeysOf(ly_metrics)
        c == MetricAt(cur_metrics, k)
        l == MetricAt(ly_metrics, k)
        ly_copy == cur_metrics = {}
    IN  [ pc_number           |-> k[1],
          item_number         |-> k[2],
          item_name           |-> IF in_cur THEN c.item_name
                                  ELSE IF ly_copy THEN l.item_name ELSE NA,
          category            |-> IF in_cur THEN c.category
                                  ELSE IF ly_copy THEN l.category ELSE NA,
          daily_usage_rate    |-> IF in_cur THEN c.daily_usage_rate ELSE NaN,
          num_orders          |-> IF in_cur THEN Num(c.num_orders) ELSE NoNum,
          total_qty           |-> IF in_cur THEN Num(c.total_qty) ELSE NoNum,
          window_days         |-> IF in_cur THEN Num(c.window_days)
                                  ELSE IF ly_copy THEN Num(l.window_days) ELSE NoNum,
          ly_daily_usage_rate |-> IF in_ly THEN l.daily_usage_rate ELSE NaN,
          ly_num_orders       |-> IF in_ly THEN Num(l.num_orders) ELSE NoNum,
          ly_total_qty        |-> IF in_ly THEN Num(l.total_qty) ELSE NoNum ]

Merged(cur_metrics, ly_metrics) ==
    LET keys == IF cur_metrics = {} THEN KeysOf(ly_metrics)
                ELSE IF ly_metrics = {} THEN KeysOf(cur_metrics)
                ELSE MergeKeys(cur_metrics, ly_metrics)
    IN  {MergedRow(cur_metrics, ly_metrics, k) : k \in keys}

CtxRow(s, c) ==
    [ pc_number                    |-> s,
      today                        |-> c.today,
      next_order_date              |-> c.next_order_date,
      next_delivery_date_for_order |-> c.next_delivery_date_for_order,
      next_delivery_after_that     |-> c.next_delivery_after_that,
      cycle_days                   |-> c.cycle_days,
      cadence_type                 |-> c.cadence_type,
      order_weekday                |-> c.order_weekday,
      delivery_weekday             |-> c.delivery_weekday ]

\* merged.merge(ctx_df[["pc_number", "cycle_days"]], on="pc_number", how="left"): the
\* cycle_days of the store's context row, none when ctx_df has no row of the store
CycleDaysFor(ctx_df, pc_number) == {x.cycle_days : x \in {y \in ctx_df : y.pc_number = pc_number}}

\* a plausible slip: the stores of the year-ago period forgotten
StoresOfCurrent(cur_metrics, ly_metrics) == {m.pc_number : m \in cur_metrics}

\* the stores of either period
StoresOf(cur_metrics, ly_metrics) ==
    {m.pc_number : m \in cur_metrics} \cup {m.pc_number : m \in ly_metrics}

\* one row of par_df; cycle is the set CycleDaysFor gave (one value, or none: NaN), and
\* any_unmatched says the merged cycle_days column holds a NaN and so is float64
ParRow(m, cycle, any_unmatched, safety_percent, current_start, current_end, ly_start, ly_end) ==
    LET cycle_days == IF cycle = {} THEN 0 ELSE CHOOSE c \in cycle : TRUE
    IN
    [ pc_number            |-> m.pc_number,
      item_number          |-> m.item_number,
      item_name            |-> m.item_name,
      category             |-> m.category,
      cycle_days           |-> IF cycle = {} THEN NoNum
                               ELSE IF any_unmatched THEN Num(cycle_days) ELSE cycle_days,
      daily_usage_rate     |-> m.daily_usage_rate,
      par_quantity         |-> ParQuantity[m.daily_usage_rate, cycle_days, safety_percent],
      ly_daily_usage_rate  |-> m.ly_daily_usage_rate,
      ly_par_quantity      |-> ParQuantity[m.ly_daily_usage_rate, cycle_days, safety_percent],
      num_orders           |-> m.num_orders,
      ly_num_orders        |-> m.ly_num_orders,
      total_qty            |-> m.total_qty,
      ly_total_qty         |-> m.ly_total_qty,
      window_days          |-> m.window_days,
      current_window_start |-> current_start,
      current_window_end   |-> current_end,
      ly_window_start      |-> ly_start,
      ly_window_end        |-> ly_end,
      safety_percent       |-> safety_percent ]

Returned(par_df, ctx_df) == [status |-> "returned", par_df |-> par_df, ctx_df |-> ctx_df]

\* ctx_df built from no store has no column: ctx_df[["pc_number", "cycle_days"]] raises
Raised(error) == [status |-> error, par_df |-> {}, ctx_df |-> {}]

\* a plausible slip: the window taken one day longer, both of its bounds included
WindowStartOneMore(end_dt, window_days) == end_dt - window_days - 1

\* a plausible slip: the length of the window taken without its sign
WindowStartAbs(end_dt, window_days) ==
    end_dt - (IF window_days < 0 THEN -window_days ELSE window_days)

\* today_dt - timedelta(days=window_days), ly_end - timedelta(days=window_days)
WindowStart(end_dt, window_days) == end_dt - window_days

get_par_for_next_order(df, pc_number, today_date, window_days, safety_percent) ==
    LET current_end   == today_date
        current_start == WindowStart(current_end, window_days)
        ly_end        == YearsAgo(today_date)
        ly_start      == WindowStart(ly_end, window_days)
        cur_all == _compute_metrics_for_period(df, current_start, current_end, window_days)
        ly_all  == _compute_metrics_for_period(df, ly_start, ly_end, window_days)
        cur_metrics == FilterStore(cur_all, pc_number)
        ly_metrics  == FilterStore(ly_all, pc_number)
        c       == get_order_context(today_date)
        stores  == StoresOf(cur_metrics, ly_metrics)
        ctx_df  == {CtxRow(s, c) : s \in stores}
        merged  == Merged(cur_metrics, ly_metrics)
        \* .date().isoformat() of the four window bounds
        iso_current_start == Iso(current_start)
        iso_current_end   == Iso(current_end)
        iso_ly_start      == Iso(ly_start)
        iso_ly_end        == Iso(ly_end)
    IN  IF df = <<>> THEN Returned({}, {})
        ELSE IF BothEmpty(cur_all, ly_all) THEN Returned({}, {})
        ELSE IF stores = {} THEN Raised("KeyError")
        ELSE Returned(
                {ParRow(m, CycleDaysFor(ctx_df, m.pc_number),
                        \E x \in merged : CycleDaysFor(ctx_df, x.pc_number) = {},
                        safety_percent, iso_current_start, iso_current_end,
                        iso_ly_start, iso_ly_end)
                    : m \in merged},
                ctx_df)

NoCall == [pc_number |-> "", today |-> 0, window_days |-> 0, safety_percent |-> 0]
\* no cached loader is running
NoLoad ==
    [fn |-> "none", args |-> <<>>, params |-> NoCall, status |-> "idle", offset |-> 0,
     requests |-> <<>>]

\* an empty cache, as after st.cache_data.clear() or at process start
NoEntries == [k \in {} |-> 0]

LoadAtRest ==
    /\ store_rows = 0
    /\ load = NoLoad
    /\ cache = NoEntries
    /\ now = 0
    /\ calls = <<>>
    /\ clears = 0

\* no _next_delivery_after call made
DeliveryAtRest ==
    /\ delivery_from = 0
    /\ next_delivery = 0

\* an empty table, an empty dict
NoRows == [r \in {} |-> 0]

\* no upload_table call made
NoUpload ==
    [status |-> "idle", rows |-> <<>>, i |-> 0, phase |-> "none", pending |-> <<>>,
     requests |-> <<>>, runs |-> 0, before |-> NoRows, after_first |-> NoRows]

UploadAtRest ==
    /\ table = NoRows
    /\ has_index = TRUE
    /\ upload = NoUpload

\* no script run made, no token issued
NoAuth ==
    [issued |-> 0, mine |-> <<>>, shown |-> "none", rerun |-> FALSE, used |-> <<>>,
     last |-> [trigger |-> "none", query |-> NoRows, before |-> NoRows, mine |-> <<>>,
               login |-> "none", logout |-> FALSE]]

AuthAtRest ==
    /\ session_state = NoRows
    /\ query_params = NoRows
    /\ auth = NoAuth

LaterAtRest == DeliveryAtRest /\ UploadAtRest /\ AuthAtRest

\* no _compute_metrics_for_period call made yet
NoPeriod == [start_dt |-> 0, end_dt |-> 0, window_days |-> 0]

NoResult == [status |-> "none", par_df |-> {}, ctx_df |-> {}]

\* the variables of the engine before any call
EngineAtRest ==
    /\ today = 0
    /\ ctx = NoCtx
    /\ raw = <<>>
    /\ call = NoCall
    /\ result = NoResult
    /\ all_data = <<>>
    /\ norm = <<>>
    /\ period = NoPeriod
    /\ metrics_df = {}
    /\ LoadAtRest

(***************************************************************************)
(* Par specification: one call of get_par_for_next_order on a loaded table *)
(***************************************************************************)
Txns ==
    [ pc_number : Stores, item_number : Items, item_name : ItemNames,
      category : Categories, effective_date : TxnDates, qty_effective : Qtys ]

RECURSIVE TablesOfLen(_)
TablesOfLen(n) ==
    IF n = 0 THEN {<<>>} ELSE {Append(t, x) : t \in TablesOfLen(n - 1), x \in Txns}

Tables == UNION {TablesOfLen(n) : n \in 0..MaxTxns}

ParInit ==
    /\ raw \in Tables
    /\ call = NoCall
    /\ result = NoResult
    /\ today = 0
    /\ ctx = NoCtx
    /\ all_data = <<>>
    /\ norm = <<>>
    /\ period = NoPeriod
    /\ metrics_df = {}
    /\ LoadAtRest
    /\ LaterAtRest

CallGetParForNextOrder ==
    /\ result.status = "none"
    /\ \E pc \in Filters, t \in TodayDays, w \in Windows, sp \in SafetyPercents :
          /\ call' = [pc_number |-> pc, today |-> t, window_days |-> w, safety_percent |-> sp]
          /\ result' = get_par_for_next_order(raw, pc, t, w, sp)
    /\ UNCHANGED <<raw, today, ctx, all_data, norm, period, metrics_df, loadVars, laterVars>>

\* the page has rendered the tables (or the error); the next render calls again
RenderDone ==
    /\ result.status # "none"
    /\ call' = NoCall
    /\ result' = NoResult
    /\ UNCHANGED <<raw, today, ctx, all_data, norm, period, metrics_df, loadVars, laterVars>>

ParNext == CallGetParForNextOrder \/ RenderDone

SpecPar == ParInit /\ [][ParNext]_vars

Called == result.status # "none"

\* the windows as the specification words them: [today - window_days, today) and the
\* same length ending on the same month and day of the previous year
SameDayLastYear(n) ==
    LET ymd == Iso(n)
    IN  Ymd2Ord(ymd[1] - 1, ymd[2], IF ymd[2] = 2 /\ ymd[3] = 29 THEN 28 ELSE ymd[3])

Within(r, lo, hi) == r.effective_date >= lo /\ r.effective_date < hi

RawRows == {raw[i] : i \in 1..Len(raw)}

\* the positions in raw of the transactions of store s and item i dated in [lo, hi)
RowsOf(s, i, lo, hi) ==
    {n \in 1..Len(raw) :
        raw[n].pc_number = s /\ raw[n].item_number = i /\ Within(raw[n], lo, hi)}

RECURSIVE QtyOver(_)
QtyOver(ns) ==
    IF ns = {} THEN 0
    ELSE LET n == CHOOSE x \in ns : TRUE IN raw[n].qty_effective + QtyOver(ns \ {n})

Shown(s) == call.pc_number \in {"", s}

\* ceil(a / b) for integers a >= 0, b > 0
CeilDiv(a, b) == (a + b - 1) \div b

ExactPar(total_qty, window_days, cycle_days, safety_percent) ==
    CeilDiv(total_qty * cycle_days * (100 + safety_percent), window_days * 100)

\* C4: in every output row with total_qty >= 0, par_quantity is
\* ceil((total_qty / window_days) * cycle_days * (1 + safety_percent/100)), is >= 0 and
\* is 0 when the rate is 0; the same for ly_par_quantity with the year-ago total.
C4_ParFormulaExact ==
    result.status = "returned" =>
        \A r \in result.par_df :
            /\ (r.total_qty # NoNum /\ r.total_qty[1] >= 0) =>
                  /\ r.par_quantity =
                        ExactPar(r.total_qty[1], call.window_days, r.cycle_days,
                                 call.safety_percent)
                  /\ r.par_quantity >= 0
                  /\ (r.total_qty[1] = 0 => r.par_quantity = 0)
            /\ (r.ly_total_qty # NoNum /\ r.ly_total_qty[1] >= 0) =>
                  /\ r.ly_par_quantity =
                        ExactPar(r.ly_total_qty[1], call.window_days, r.cycle_days,
                                 call.safety_percent)
                  /\ r.ly_par_quantity >= 0
                  /\ (r.ly_total_qty[1] = 0 => r.ly_par_quantity = 0)

\* C5: a (store, item) pair with transactions only in the year-ago window and a positive
\* year-ago total is in the par results with par_quantity = 0 and ly_par_quantity > 0;
\* a pair with transactions only in the current window is in them with
\* ly_par_quantity = 0; whatever the other pairs have.
C5_OuterJoinComplete ==
    Called =>
        LET hi    == call.today
            lo    == hi - call.window_days
            ly_hi == SameDayLastYear(call.today)
            ly_lo == ly_hi - call.window_days
        IN  \A s \in Stores, i \in Items :
              LET cur == RowsOf(s, i, lo, hi)
                  ly  == RowsOf(s, i, ly_lo, ly_hi)
              IN  /\ (Shown(s) /\ cur = {} /\ QtyOver(ly) > 0) =>
                        /\ result.status = "returned"
                        /\ \E r \in result.par_df :
                              /\ r.pc_number = s /\ r.item_number = i
                              /\ r.par_quantity = 0
                              /\ r.ly_par_quantity > 0
                  /\ (Shown(s) /\ ly = {} /\ cur # {}) =>
                        /\ result.status = "returned"
                        /\ \E r \in result.par_df :
                              /\ r.pc_number = s /\ r.item_number = i
                              /\ r.ly_par_quantity = 0

\* a pair seen only a year ago is in the results while another pair has current data
C5_Witness ==
    /\ result.status = "returned"
    /\ \E r \in result.par_df :
          /\ r.num_orders = NoNum
          /\ r.par_quantity = 0
          /\ r.ly_par_quantity > 0
    /\ \E r \in result.par_df : r.total_qty # NoNum /\ r.total_qty[1] > 0

\* C6: the rows of a call filtered to store s are the rows with pc_number = s of the
\* unfiltered call on the same table, field by field.
C6_FilterCommutes ==
    (result.status = "returned" /\ call.pc_number # "") =>
        result.par_df =
            { r \in get_par_for_next_order(raw, "", call.today, call.window_days,
                                           call.safety_percent).par_df :
                r.pc_number = call.pc_number }

\* no transaction of the table lies in the current or in the year-ago window
NoneInEitherWindow ==
    LET hi    == call.today
        ly_hi == SameDayLastYear(call.today)
    IN  \A r \in RawRows :
            /\ ~Within(r, hi - call.window_days, hi)
            /\ ~Within(r, ly_hi - call.window_days, ly_hi)

\* C7: an empty upstream table, or a table with no transaction in the current or the
\* year-ago window, gives two empty tables and no exception.
C7_NoDataReturnsEmpty ==
    (Called /\ NoneInEitherWindow) =>
        /\ result.status = "returned"
        /\ result.par_df = {}
        /\ result.ctx_df = {}

\* a non-empty table with no transaction in either window, and the call returned empty
C7_Witness ==
    /\ Called
    /\ raw # <<>>
    /\ NoneInEitherWindow
    /\ result = Returned({}, {})

\* C8: a store filter that matches no row of either period, while other stores have
\* transactions in a window, gives empty tables and no exception.
C8_UnmatchedFilterReturnsEmpty ==
    ( /\ Called
      /\ call.pc_number # ""
      /\ ~NoneInEitherWindow
      /\ LET hi    == call.today
             ly_hi == SameDayLastYear(call.today)
         IN  \A r \in RawRows :
                (Within(r, hi - call.window_days, hi)
                    \/ Within(r, ly_hi - call.window_days, ly_hi))
                => r.pc_number # call.pc_number ) =>
        /\ result.status = "returned"
        /\ result.par_df = {}
        /\ result.ctx_df = {}

\* the number of orders a row reports for n transactions in the window
Counted(n) == IF n = 0 THEN NoNum ELSE Num(n)

\* C9: ly_end is today's month and day in the previous year (2024-03-01 gives
\* 2023-03-01, February 29 gives February 28), ly_start = ly_end - window_days, the
\* current window is [today - window_days, today), and the rows count the
\* transactions of exactly these windows.
C9_YearAgoWindow ==
    result.status = "returned" =>
        LET t     == Iso(call.today)
            hi    == call.today
            lo    == hi - call.window_days
            ly_hi == SameDayLastYear(call.today)
            ly_lo == ly_hi - call.window_days
            iso_lo    == Iso(lo)
            iso_ly_lo == Iso(ly_lo)
        IN  \A r \in result.par_df :
                /\ r.ly_window_end =
                      <<t[1] - 1, t[2], IF t[2] = 2 /\ t[3] = 29 THEN 28 ELSE t[3]>>
                /\ (call.today = Ymd2Ord(2024, 3, 1) => r.ly_window_end = <<2023, 3, 1>>)
                /\ (call.today = Ymd2Ord(2024, 2, 29) => r.ly_window_end = <<2023, 2, 28>>)
                /\ r.ly_window_start = iso_ly_lo
                /\ r.current_window_end = t
                /\ r.current_window_start = iso_lo
                /\ r.num_orders =
                      Counted(Cardinality(RowsOf(r.pc_number, r.item_number, lo, hi)))
                /\ r.ly_num_orders =
                      Counted(Cardinality(RowsOf(r.pc_number, r.item_number, ly_lo, ly_hi)))

\* a call on 2024-03-01: the year-ago window ends 2023-03-01, where 365 days back
\* is 2023-03-02
C9_Witness ==
    /\ result.status = "returned"
    /\ call.today = Ymd2Ord(2024, 3, 1)
    /\ Iso(call.today - 365) = <<2023, 3, 2>>
    /\ \E r \in result.par_df : r.ly_window_end = <<2023, 3, 1>> /\ r.ly_num_orders # NoNum

\* C22: the order-context table of a returned call has exactly one row for every
\* store of the par results and no other row, every row carries the one schedule
\* computed from today, and every par row has that schedule's cycle_days, never null
C22_ContextRowPerStore ==
    result.status = "returned" =>
        LET c     == get_order_context(call.today)
            shown == {r.pc_number : r \in result.par_df}
        IN  /\ {x.pc_number : x \in result.ctx_df} = shown
            /\ Cardinality(result.ctx_df) = Cardinality(shown)
            /\ \A x \in result.ctx_df : x = CtxRow(x.pc_number, c)
            /\ \A r \in result.par_df : r.cycle_days = c.cycle_days

\* a call returned two stores, one of them seen only in the year-ago window
C22_Witness ==
    /\ result.status = "returned"
    /\ {r.pc_number : r \in result.par_df} = Stores
    /\ Cardinality(result.ctx_df) = 2
    /\ \E r \in result.par_df : r.num_orders = NoNum /\ r.ly_num_orders # NoNum
    /\ \E r \in result.par_df : r.num_orders # NoNum

(***************************************************************************)
(* Cadence specification: the scheduler applied to every day of a range    *)
(***************************************************************************)
NumDays == 60

FirstDay == Ymd2Ord(2024, 2, 26)

CadenceDays == FirstDay .. (FirstDay + NumDays - 1)

CadenceInit ==
    /\ today \in CadenceDays
    /\ ctx = NoCtx
    /\ raw = <<>>
    /\ call = NoCall
    /\ result = NoResult
    /\ all_data = <<>>
    /\ norm = <<>>
    /\ period = NoPeriod
    /\ metrics_df = {}
    /\ LoadAtRest
    /\ LaterAtRest

CallGetOrderContext ==
    /\ ctx = NoCtx
    /\ ctx' = get_order_context(today)
    /\ UNCHANGED <<today, raw, call, result, all_data, norm, period, metrics_df, loadVars, laterVars>>

DayPasses ==
    /\ today + 1 \in CadenceDays
    /\ today' = today + 1
    /\ ctx' = NoCtx
    /\ UNCHANGED <<raw, call, result, all_data, norm, period, metrics_df, loadVars, laterVars>>

CadenceNext == CallGetOrderContext \/ DayPasses

SpecCadence == CadenceInit /\ [][CadenceNext]_vars

HasCtx == ctx.cadence_type = "TWICE_WEEKLY"

\* C1: for every date d, get_order_context(d) has cycle_days in {3, 4} and
\* next_delivery_after_that > next_delivery_date_for_order > next_order_date >= d.
C1_CadenceOrdered ==
    HasCtx =>
        /\ ctx.today = today
        /\ ctx.cycle_days \in {3, 4}
        /\ ctx.next_delivery_after_that > ctx.next_delivery_date_for_order
        /\ ctx.next_delivery_date_for_order > ctx.next_order_date
        /\ ctx.next_order_date >= today

\* a context was computed on a day that is itself an order day (the >= is an equality)
C1_Witness ==
    /\ HasCtx
    /\ Weekday(today) = SAT
    /\ ctx.next_order_date = today
    /\ ctx.cycle_days = 3

\* C2: next_order_date is the earliest date >= d that is a Tuesday or a Saturday:
\* it is d itself when d is one, and no Tuesday or Saturday lies in [d, next_order_date).
C2_EarliestOrderDay ==
    HasCtx =>
        /\ ctx.next_order_date >= today
        /\ Weekday(ctx.next_order_date) \in {TUE, SAT}
        /\ \A x \in today .. (ctx.next_order_date - 1) : Weekday(x) \notin {TUE, SAT}
        /\ (Weekday(today) \in {TUE, SAT} => ctx.next_order_date = today)

\* a context computed on a Sunday: the order day is two days ahead, past no order day
C2_Witness ==
    /\ HasCtx
    /\ Weekday(today) = 6
    /\ ctx.next_order_date = today + 2

\* C3: on a Monday: order the next day (Tuesday), delivery that Thursday, the delivery
\* after it the following Monday, cycle_days = 4; on a Thursday: order the upcoming
\* Saturday, delivery the following Monday, then the Thursday after, cycle_days = 3.
C3_MondayThursdayCases ==
    HasCtx =>
        /\ (Weekday(today) = MON =>
                /\ ctx.next_order_date = today + 1
                /\ Weekday(ctx.next_order_date) = TUE
                /\ ctx.next_delivery_date_for_order = today + 3
                /\ Weekday(ctx.next_delivery_date_for_order) = THU
                /\ ctx.next_delivery_after_that = today + 7
                /\ Weekday(ctx.next_delivery_after_that) = MON
                /\ ctx.cycle_days = 4)
        /\ (Weekday(today) = THU =>
                /\ ctx.next_order_date = today + 2
                /\ Weekday(ctx.next_order_date) = SAT
                /\ ctx.next_delivery_date_for_order = today + 4
                /\ Weekday(ctx.next_delivery_date_for_order) = MON
                /\ ctx.next_delivery_after_that = today + 7
                /\ Weekday(ctx.next_delivery_after_that) = THU
                /\ ctx.cycle_days = 3)

\* a context computed on a Thursday, with the three-day cycle
C3_Witness ==
    /\ HasCtx
    /\ Weekday(today) = THU
    /\ ctx.cycle_days = 3
    /\ ctx.next_delivery_after_that = today + 7

\* C21: the delivery date is next_order_date + 2 days and falls on a Thursday
\* (Tuesday order) or a Monday (Saturday order), so _next_delivery_after takes one
\* of its two first branches, never the fallback, and the floor max(..., 1) on
\* cycle_days leaves the difference of the two deliveries as it is.
C21_FallbackNeverReached ==
    HasCtx =>
        /\ ctx.next_delivery_date_for_order = ctx.next_order_date + 2
        /\ (ctx.order_weekday = TUE => Weekday(ctx.next_delivery_date_for_order) = THU)
        /\ (ctx.order_weekday = SAT => Weekday(ctx.next_delivery_date_for_order) = MON)
        /\ ctx.delivery_weekday \in {MON, THU}
        /\ ctx.next_delivery_after_that =
              ctx.next_delivery_date_for_order + (IF ctx.delivery_weekday = MON THEN 3 ELSE 4)
        /\ ctx.next_delivery_after_that - ctx.next_delivery_date_for_order >= 1
        /\ ctx.cycle_days = ctx.next_delivery_after_that - ctx.next_delivery_date_for_order

\* a context computed on a Friday: Saturday order, Monday delivery, Thursday after
C21_Witness ==
    /\ HasCtx
    /\ Weekday(today) = 4
    /\ ctx.order_weekday = SAT
    /\ ctx.delivery_weekday = MON
    /\ ctx.next_delivery_after_that = ctx.next_delivery_date_for_order + 3

\* C25: cycle_days is 4 exactly when next_order_date is a Tuesday and 3 exactly when
\* it is a Saturday, and next_order_date is at most 3 days after today.
C25_CycleByOrderWeekday ==
    HasCtx =>
        /\ (ctx.cycle_days = 4 <=> Weekday(ctx.next_order_date) = TUE)
        /\ (ctx.cycle_days = 3 <=> Weekday(ctx.next_order_date) = SAT)
        /\ ctx.order_weekday = Weekday(ctx.next_order_date)
        /\ ctx.next_order_date - today <= 3

\* a context computed on a Wednesday: the order day is the Saturday, 3 days ahead
C25_Witness ==
    /\ HasCtx
    /\ Weekday(today) = 2
    /\ ctx.next_order_date = today + 3
    /\ ctx.cycle_days = 3

\* C26: the context of today + 7 is the context of today with its four dates moved
\* 7 days on and cycle_days, order_weekday and delivery_weekday the same.
C26_WeeklyPeriodic ==
    HasCtx =>
        get_order_context(today + 7) =
            [ctx EXCEPT !.today = @ + 7,
                        !.next_order_date = @ + 7,
                        !.next_delivery_date_for_order = @ + 7,
                        !.next_delivery_after_that = @ + 7]

\* a context computed on the last day of a month, a week before a day of the
\* next month
C26_Witness ==
    /\ HasCtx
    /\ Iso(today) = <<2024, 3, 31>>
    /\ Iso(get_order_context(today + 7).next_order_date) = <<2024, 4, 9>>
    /\ ctx.next_order_date = today + 2

(***************************************************************************)
(* Record normalizer of _load_ndcp_data                                    *)
(*                                                                         *)
(* A cell is a tagged tuple: a null (None, NaN, NaT, <NA>), a number, a    *)
(* string as the sequence of its characters, or a timestamp as the ordinal *)
(* of its date.  A frame has its column labels, the dtype of each column,  *)
(* its index labels and one row (column label -> cell) per index label.    *)
(***************************************************************************)
Null == <<"null">>
IntV(n) == <<"int", n>>
StrV(cs) == <<"str", cs>>
DateV(n) == <<"date", n>>
IsNull(v) == v[1] = "null"

DigitChars == <<"0", "1", "2", "3", "4", "5", "6", "7", "8", "9">>
IsDigit(c) == \E i \in 1..10 : DigitChars[i] = c
DigitVal(c) == (CHOOSE i \in 1..10 : DigitChars[i] = c) - 1
AllDigits(cs) == cs # <<>> /\ \A i \in 1..Len(cs) : IsDigit(cs[i])

\* str(n) of an integer
RECURSIVE IntToChars(_)
IntToChars(n) ==
    IF n < 0 THEN <<"-">> \o IntToChars(-n)
    ELSE IF n < 10 THEN <<DigitChars[n + 1]>>
    ELSE Append(IntToChars(n \div 10), DigitChars[(n % 10) + 1])

\* int(cs) of a string of decimal digits
RECURSIVE CharsToInt(_)
CharsToInt(cs) ==
    IF cs = <<>> THEN 0
    ELSE CharsToInt(SubSeq(cs, 1, Len(cs) - 1)) * 10 + DigitVal(cs[Len(cs)])

SourceColumns ==
    { "PC Number", "Item Number", "Item Description", "Qty Ordered", "Qty Shipped",
      "Order Date", "Invoice Date", "Category Desc" }

EmptyFrame ==
    [columns |-> {}, dtypes |-> [c \in {} |-> "object"], index |-> <<>>, data |-> <<>>]

Column(f, col) == [i \in 1..Len(f.data) |-> f.data[i][col]]

\* the dtype pd.DataFrame(list of dicts) gives a column: object when a string is in
\* it or when it is all None, float64 when integers are mixed with None, else int64
InferDtype(vals) ==
    IF \E i \in 1..Len(vals) : vals[i][1] = "str" THEN "object"
    ELSE IF \A i \in 1..Len(vals) : IsNull(vals[i]) THEN "object"
    ELSE IF \E i \in 1..Len(vals) : IsNull(vals[i]) THEN "float64"
    ELSE "int64"

\* df = pd.DataFrame(all_data): the columns are the keys of the rows, the index
\* is 0..n-1
DataFrame(data) ==
    IF data = <<>> THEN EmptyFrame
    ELSE LET cols == DOMAIN data[1]
         IN  [ columns |-> cols,
               dtypes  |-> [c \in cols |->
                              InferDtype([i \in 1..Len(data) |-> data[i][c]])],
               index   |-> [i \in 1..Len(data) |-> i - 1],
               data    |-> data ]

\* df.empty: no column or no row
IsEmpty(f) == f.columns = {} \/ f.data = <<>>

RenameColumn(c) ==
    CASE c = "PC Number"        -> "pc_number"
      [] c = "Item Number"      -> "item_number"
      [] c = "Item Description" -> "item_name"
      [] c = "Qty Ordered"      -> "qty_ordered"
      [] c = "Qty Shipped"      -> "qty_shipped"
      [] c = "Order Date"       -> "order_date_raw"
      [] c = "Invoice Date"     -> "invoice_date_raw"
      [] c = "Category Desc"    -> "category"
      [] OTHER                  -> c

\* df.rename(columns={...})
Rename(f) ==
    LET cols == {RenameColumn(c) : c \in f.columns}
        Old(c2) == CHOOSE c \in f.columns : RenameColumn(c) = c2
    IN  [ columns |-> cols,
          dtypes  |-> [c2 \in cols |-> f.dtypes[Old(c2)]],
          index   |-> f.index,
          data    |-> [i \in 1..Len(f.data) |-> [c2 \in cols |-> f.data[i][Old(c2)]]] ]

\* df[col] = vals, a new or an overwritten column
SetColumn(f, col, vals, dtype) ==
    LET cols == f.columns \cup {col}
    IN  [ columns |-> cols,
          dtypes  |-> [c \in cols |-> IF c = col THEN dtype ELSE f.dtypes[c]],
          index   |-> f.index,
          data    |-> [i \in 1..Len(f.data) |->
                         [c \in cols |-> IF c = col THEN vals[i] ELSE f.data[i][c]]] ]

\* pd.to_numeric(x, errors="coerce") of one cell: a number stays, a string of
\* decimal digits is its value, anything else is NaN
ToNumericValue(v) ==
    CASE v[1] = "int" -> v
      [] v[1] = "str" -> IF AllDigits(v[2]) THEN IntV(CharsToInt(v[2])) ELSE Null
      [] OTHER        -> Null

\* df[col] = pd.to_numeric(df[col], errors="coerce") when col is a column: a
\* numeric column is returned as it is, an object column becomes float64 when a
\* NaN is in the result and int64 otherwise
to_numeric(f, col) ==
    IF col \notin f.columns \/ f.dtypes[col] \in {"int64", "float64"} THEN f
    ELSE LET vals == [i \in 1..Len(f.data) |-> ToNumericValue(f.data[i][col])]
         IN  SetColumn(f, col, vals,
                       IF \E i \in 1..Len(vals) : IsNull(vals[i])
                       THEN "float64" ELSE "int64")

\* s.astype("string") of one cell: an int64 or object cell holding 20240115 prints
\* as "20240115", a float64 cell as "20240115.0"; a null stays <NA>
AsString(v, dtype) ==
    CASE v[1] = "int" ->
            StrV(IntToChars(v[2]) \o (IF dtype = "float64" THEN <<".", "0">> ELSE <<>>))
      [] v[1] = "str" -> v
      [] OTHER        -> Null

\* re.sub(r"\.0$", "", cs)
StripDotZero(cs) ==
    IF Len(cs) >= 2 /\ cs[Len(cs) - 1] = "." /\ cs[Len(cs)] = "0"
    THEN SubSeq(cs, 1, Len(cs) - 2)
    ELSE cs

\* cs.zfill(width) of an unsigned string
RECURSIVE ZFill(_, _)
ZFill(cs, width) == IF Len(cs) >= width THEN cs ELSE ZFill(<<"0">> \o cs, width)

\* the midnights a datetime64[ns] holds
TimestampMin == Ymd2Ord(1677, 9, 22)
TimestampMax == Ymd2Ord(2262, 4, 11)

\* pd.to_datetime(cs, format="%Y%m%d", errors="coerce") of one string: four digits
\* of year, two of month, two of day and nothing else, a date of the calendar, in
\* the range of a timestamp; NaT otherwise
ToDatetime(cs) ==
    IF Len(cs) = 8 /\ AllDigits(cs)
    THEN LET y == CharsToInt(SubSeq(cs, 1, 4))
             m == CharsToInt(SubSeq(cs, 5, 6))
             d == CharsToInt(SubSeq(cs, 7, 8))
         IN  IF /\ y >= 1
                /\ m \in 1..12
                /\ d >= 1
                /\ d <= DaysInMonth(y, m)
                /\ Ymd2Ord(y, m, d) >= TimestampMin
                /\ Ymd2Ord(y, m, d) <= TimestampMax
             THEN DateV(Ymd2Ord(y, m, d))
             ELSE Null
    ELSE Null

\* _parse_yyyymmdd(df[col]), cell by cell; the string methods leave <NA> as it is
_parse_yyyymmdd(f, col) ==
    [i \in 1..Len(f.data) |->
        LET sv == AsString(f.data[i][col], f.dtypes[col])
        IN  IF IsNull(sv) THEN Null ELSE ToDatetime(ZFill(StripDotZero(sv[2]), 8))]

AllNaT(f) == [i \in 1..Len(f.data) |-> Null]

\* a plausible slip: "a or b", which also replaces a zero
FillNaFalsy(a, b) ==
    [i \in 1..Len(a) |-> IF IsNull(a[i]) \/ a[i] = IntV(0) THEN b[i] ELSE a[i]]

\* a.fillna(b), cell by cell
FillNa(a, b) == [i \in 1..Len(a) |-> IF IsNull(a[i]) THEN b[i] ELSE a[i]]

RECURSIVE KeepRows(_, _, _)
KeepRows(xs, keep, i) ==
    IF i > Len(xs) THEN <<>>
    ELSE (IF i \in keep THEN <<xs[i]>> ELSE <<>>) \o KeepRows(xs, keep, i + 1)

\* df.dropna(subset=cols): the rows with no null in cols, under their index labels
DropNa(f, cols) ==
    LET keep == {i \in 1..Len(f.data) : \A c \in cols : ~IsNull(f.data[i][c])}
    IN  [f EXCEPT !.index = KeepRows(f.index, keep, 1),
                  !.data  = KeepRows(f.data, keep, 1)]

\* a plausible slip: only the canonical fields are returned, the raw date fields
\* the dates were parsed from are not
ReturnedColumnsCanonical(cols) == cols \ {"order_date_raw", "invoice_date_raw"}

\* return df: every column of the frame is returned
ReturnedColumns(cols) == cols

Project(f, cols) ==
    [ columns |-> cols,
      dtypes  |-> [c \in cols |-> f.dtypes[c]],
      index   |-> f.index,
      data    |-> [i \in 1..Len(f.data) |-> [c \in cols |-> f.data[i][c]]] ]

\* lines 73-108 of _load_ndcp_data, on a frame
NormalizeColumns(df) ==
    LET f1 == to_numeric(to_numeric(to_numeric(Rename(df), "qty_ordered"),
                                    "qty_shipped"), "item_number")
        f2 == SetColumn(f1, "order_date",
                        IF "order_date_raw" \in f1.columns
                        THEN _parse_yyyymmdd(f1, "order_date_raw") ELSE AllNaT(f1),
                        "datetime64[ns]")
        f3 == SetColumn(f2, "invoice_date",
                        IF "invoice_date_raw" \in f2.columns
                        THEN _parse_yyyymmdd(f2, "invoice_date_raw") ELSE AllNaT(f2),
                        "datetime64[ns]")
        f4 == SetColumn(f3, "effective_date",
                        FillNa(Column(f3, "invoice_date"), Column(f3, "order_date")),
                        "datetime64[ns]")
        f5 == DropNa(f4, {"pc_number", "item_number", "item_name", "effective_date"})
        f6 == SetColumn(f5, "qty_effective",
                        FillNa(FillNa(Column(f5, "qty_shipped"), Column(f5, "qty_ordered")),
                               [i \in 1..Len(f5.data) |-> IntV(0)]),
                        f5.dtypes["qty_shipped"])
    IN  Project(f6, ReturnedColumns(f6.columns))

\* lines 70-108: an empty frame is returned as it is
Normalize(df) == IF IsEmpty(df) THEN df ELSE NormalizeColumns(df)

(***************************************************************************)
(* Normalizer specification: the rows read from ndcp_invoices are          *)
(* normalized, and the normalized frame is normalized again                *)
(***************************************************************************)
MaxRawRows == 2
MaxPasses == 2

RawRow(pc, item, name, qty_ordered, qty_shipped, order_date, invoice_date, category) ==
    [c \in SourceColumns |->
        CASE c = "PC Number"        -> pc
          [] c = "Item Number"      -> item
          [] c = "Item Description" -> name
          [] c = "Qty Ordered"      -> qty_ordered
          [] c = "Qty Shipped"      -> qty_shipped
          [] c = "Order Date"       -> order_date
          [] c = "Invoice Date"     -> invoice_date
          [] c = "Category Desc"    -> category]

StoreA == StrV(<<"A">>)
Glazed == StrV(<<"G", "l", "a", "z", "e", "d">>)
Donut == StrV(<<"D", "O", "N", "U", "T">>)

\* a date as the compact integer, an impossible date, a short integer that zfill
\* pads, the compact string, a dashed string, and a missing date
DateCells ==
    { IntV(20240115), IntV(20240230), IntV(101), StrV(IntToChars(20240115)),
      StrV(<<"2", "0", "2", "4", "-", "0", "1", "-", "1", "5">>), Null }

QtyCells == { IntV(7), IntV(0), IntV(-3), StrV(<<"7">>), StrV(<<"x">>), Null }

NdcpRows ==
    \* the dates vary
    { RawRow(StoreA, IntV(10023), Glazed, IntV(5), IntV(7), IntV(20240110), inv, Donut) :
        inv \in DateCells }
    \cup
    { RawRow(StoreA, IntV(10023), Glazed, IntV(5), IntV(7), od, Null, Donut) :
        od \in DateCells }
    \cup
    \* the quantities vary
    { RawRow(StoreA, IntV(10024), Glazed, IntV(5), qs, IntV(20240110), IntV(20240115), Donut) :
        qs \in QtyCells }
    \cup
    { RawRow(StoreA, IntV(10024), Glazed, Null, Null, IntV(20240110), IntV(20240115), Donut) }
    \cup
    \* the keys vary
    { RawRow(pc, IntV(10023), Glazed, IntV(5), IntV(7), IntV(20240110), IntV(20240115), Donut) :
        pc \in {Null} }
    \cup
    { RawRow(StoreA, item, Glazed, IntV(5), IntV(7), IntV(20240110), IntV(20240115), Donut) :
        item \in {StrV(IntToChars(10023)), StrV(<<"x">>), Null} }
    \cup
    { RawRow(StoreA, IntV(10023), name, IntV(5), IntV(7), IntV(20240110), IntV(20240115), cat) :
        name \in {Null}, cat \in {Null} }

RECURSIVE RawTablesOfLen(_)
RawTablesOfLen(n) ==
    IF n = 0 THEN {<<>>}
    ELSE {Append(t, x) : t \in RawTablesOfLen(n - 1), x \in NdcpRows}

NormInit ==
    /\ all_data \in UNION {RawTablesOfLen(n) : n \in 0..MaxRawRows}
    /\ norm = <<>>
    /\ period = NoPeriod
    /\ metrics_df = {}
    /\ LoadAtRest
    /\ LaterAtRest
    /\ today = 0
    /\ ctx = NoCtx
    /\ raw = <<>>
    /\ call = NoCall
    /\ result = NoResult

\* _load_ndcp_data from line 69: the frame of the accumulated rows, normalized
LoadNdcpData ==
    /\ norm = <<>>
    /\ norm' = <<Normalize(DataFrame(all_data))>>
    /\ UNCHANGED <<all_data, today, ctx, raw, call, result, period, metrics_df, loadVars, laterVars>>

\* the normalizer applied to the frame it returned
Renormalize ==
    /\ Len(norm) \in 1..(MaxPasses - 1)
    /\ norm' = Append(norm, Normalize(norm[Len(norm)]))
    /\ UNCHANGED <<all_data, today, ctx, raw, call, result, period, metrics_df, loadVars, laterVars>>

NormNext == LoadNdcpData \/ Renormalize

SpecNorm == NormInit /\ [][NormNext]_vars

\* C10: applying the normalizer to a record set it has normalized returns the
\* identical record set: the same columns and dtypes, the same rows under the same
\* index labels (no row dropped), the same value in every field.
C10_NormalizeIdempotent ==
    \A k \in 2..Len(norm) :
        /\ norm[k].columns = norm[1].columns
        /\ norm[k].dtypes = norm[1].dtypes
        /\ norm[k].index = norm[1].index
        /\ norm[k].data = norm[1].data

\* a frame normalized twice whose first pass dropped a row and kept a row whose
\* invoice date was read from a float64 column ("20240115.0") and parsed
C10_Witness ==
    /\ Len(norm) >= 2
    /\ Len(norm[1].data) = 1
    /\ Len(all_data) = 2
    /\ norm[1].dtypes["invoice_date_raw"] = "float64"
    /\ norm[2].data[1]["invoice_date"] = DateV(Ymd2Ord(2024, 1, 15))
    /\ norm[2].data[1]["qty_effective"] = IntV(7)

\* the index labels of a frame
Labels(f) == {f.index[i] : i \in 1..Len(f.index)}

\* a raw date cell that parses on its own: its text, less a trailing ".0", padded to
\* eight characters, is a date
Parseable(v) ==
    /\ ~IsNull(v)
    /\ ~IsNull(ToDatetime(ZFill(StripDotZero(AsString(v, "object")[2]), 8)))

\* a raw row with a store id, an item id, an item name and a date that parses
Complete(row) ==
    /\ ~IsNull(row["PC Number"])
    /\ ~IsNull(row["Item Number"])
    /\ ~IsNull(row["Item Description"])
    /\ (Parseable(row["Invoice Date"]) \/ Parseable(row["Order Date"]))

\* C11: the normalized frame holds exactly the raw rows with a non-null store id,
\* item id and item name and an invoice or order date that parses, each decided on
\* the row alone; pc_number, item_number, item_name and effective_date are
\* non-null in every row of it.
C11_KeepsExactlyCompleteRows ==
    Len(norm) >= 1 =>
        /\ \A p \in 1..Len(all_data) :
              (p - 1) \in Labels(norm[1]) <=> Complete(all_data[p])
        /\ \A i \in 1..Len(norm[1].data) :
              \A c \in {"pc_number", "item_number", "item_name", "effective_date"} :
                  ~IsNull(norm[1].data[i][c])

\* C12: qty_effective is >= 0 in every normalized row, whatever the raw shipped
\* and ordered quantities are (negative ones included).
C12_EffectiveQuantityNonNegative ==
    Len(norm) >= 1 =>
        \A i \in 1..Len(norm[1].data) : norm[1].data[i]["qty_effective"][2] >= 0

\* the date a raw cell parses to on its own (NaT when it does not parse)
ParsedAlone(v) ==
    IF Parseable(v) THEN ToDatetime(ZFill(StripDotZero(AsString(v, "object")[2]), 8))
    ELSE Null

\* C13: in every normalized row effective_date is the invoice date when the raw
\* invoice date parsed and the order date otherwise; qty_effective is qty_shipped
\* when non-null, else qty_ordered when non-null, else 0; a shipped quantity of 0
\* is used as 0.
C13_EffectiveFieldsFallBack ==
    Len(norm) >= 1 =>
        \A i \in 1..Len(norm[1].data) :
            LET r   == norm[1].data[i]
                src == all_data[norm[1].index[i] + 1]
            IN  /\ r["invoice_date"] = ParsedAlone(src["Invoice Date"])
                /\ r["order_date"] = ParsedAlone(src["Order Date"])
                /\ r["effective_date"] =
                      (IF ~IsNull(r["invoice_date"]) THEN r["invoice_date"]
                       ELSE r["order_date"])
                /\ r["qty_effective"] =
                      (IF ~IsNull(r["qty_shipped"]) THEN r["qty_shipped"]
                       ELSE IF ~IsNull(r["qty_ordered"]) THEN r["qty_ordered"]
                       ELSE IntV(0))
                /\ (r["qty_shipped"] = IntV(0) => r["qty_effective"] = IntV(0))

\* a normalized frame with a row shipped 0 against 5 ordered, and a row whose invoice
\* date did not parse and whose order date did
C13_Witness ==
    /\ Len(norm) >= 1
    /\ \E i \in 1..Len(norm[1].data) :
          /\ norm[1].data[i]["qty_shipped"] = IntV(0)
          /\ norm[1].data[i]["qty_ordered"] = IntV(5)
          /\ norm[1].data[i]["qty_effective"] = IntV(0)
    /\ \E i \in 1..Len(norm[1].data) :
          /\ ~IsNull(all_data[norm[1].index[i] + 1]["Invoice Date"])
          /\ IsNull(norm[1].data[i]["invoice_date"])
          /\ norm[1].data[i]["effective_date"] = DateV(Ymd2Ord(2024, 1, 10))

(***************************************************************************)
(* Metrics specification: one call of _compute_metrics_for_period on a     *)
(* normalized table, with the window length given apart from the dates     *)
(***************************************************************************)
MetricDay(k) == Ymd2Ord(2024, 2, 26) + k

MetricTxn(item, name, cat, day, qty) ==
    [ pc_number |-> "A", item_number |-> item, item_name |-> name, category |-> cat,
      effective_date |-> MetricDay(day), qty_effective |-> qty ]

MetricTxns ==
    \* the same item on four consecutive days
    { MetricTxn(10023, "Glazed", "DONUT", k, 90) : k \in 0..3 }
    \cup
    \* renamed, recategorized or uncategorized transactions of it
    { MetricTxn(10023, "Old", cat, k, 90) : cat \in {NA, "BAKERY"}, k \in 1..2 }
    \cup
    \* another quantity, another item
    { MetricTxn(10023, "Glazed", "DONUT", 2, 0), MetricTxn(10024, "Glazed", "DONUT", 1, 0) }

RECURSIVE MetricTablesOfLen(_)
MetricTablesOfLen(n) ==
    IF n = 0 THEN {<<>>}
    ELSE {Append(t, x) : t \in MetricTablesOfLen(n - 1), x \in MetricTxns}

MetricsInit ==
    /\ raw \in UNION {MetricTablesOfLen(n) : n \in 0..MaxTxns}
    /\ period = NoPeriod
    /\ metrics_df = {}
    /\ LoadAtRest
    /\ LaterAtRest
    /\ today = 0
    /\ ctx = NoCtx
    /\ call = NoCall
    /\ result = NoResult
    /\ all_data = <<>>
    /\ norm = <<>>

CallComputeMetrics ==
    /\ period = NoPeriod
    /\ \E s \in 0..1, e \in 2..3, w \in Windows :
          /\ period' = [start_dt |-> MetricDay(s), end_dt |-> MetricDay(e),
                        window_days |-> w]
          /\ metrics_df' = _compute_metrics_for_period(raw, MetricDay(s), MetricDay(e), w)
    /\ UNCHANGED <<raw, today, ctx, call, result, all_data, norm, loadVars, laterVars>>

\* the caller has taken the frame; the next call computes again
MetricsTaken ==
    /\ period # NoPeriod
    /\ period' = NoPeriod
    /\ metrics_df' = {}
    /\ UNCHANGED <<raw, today, ctx, call, result, all_data, norm, loadVars, laterVars>>

MetricsNext == CallComputeMetrics \/ MetricsTaken

SpecMetrics == MetricsInit /\ [][MetricsNext]_vars

\* C14: the metrics have one row for each (store, item) with a transaction dated in
\* [start, end) and no other row; the row has the sum, the count and the earliest
\* and latest date of exactly those transactions, the window length it was given,
\* and daily_usage_rate = total_qty / window_days whatever the dates seen.
C14_MetricsOverHalfOpenWindow ==
    period # NoPeriod =>
        \A i \in Items :
            LET ns == RowsOf("A", i, period.start_dt, period.end_dt)
                ms == {m \in metrics_df : m.pc_number = "A" /\ m.item_number = i}
            IN  IF ns = {} THEN ms = {}
                ELSE /\ Cardinality(ms) = 1
                     /\ \A m \in ms :
                          /\ m.total_qty = QtyOver(ns)
                          /\ m.num_orders = Cardinality(ns)
                          /\ \A n \in ns : m.first_date <= raw[n].effective_date
                          /\ \E n \in ns : m.first_date = raw[n].effective_date
                          /\ \A n \in ns : m.last_date >= raw[n].effective_date
                          /\ \E n \in ns : m.last_date = raw[n].effective_date
                          /\ m.window_days = period.window_days
                          /\ m.daily_usage_rate =
                                FDivInt(m.total_qty, period.window_days)
                          /\ (m.total_qty % period.window_days = 0 =>
                                m.daily_usage_rate =
                                    FFromInt(m.total_qty \div period.window_days))

\* a table with a transaction dated at the start and one dated at the end of the
\* window: only the first is counted, and one day of data over a 90-day window
\* length has the rate 90 / 90
C14_Witness ==
    /\ period # NoPeriod
    /\ period.window_days = 90
    /\ \E n \in 1..Len(raw) : raw[n].effective_date = period.start_dt
    /\ \E n \in 1..Len(raw) : raw[n].effective_date = period.end_dt
    /\ \E m \in metrics_df :
          /\ m.num_orders = 1
          /\ m.first_date = period.start_dt
          /\ m.last_date = period.start_dt
          /\ m.daily_usage_rate = FFromInt(1)

\* the in-window transactions of a group that carry the latest date among those
\* with a value in field f
LatestWith(ns, f) ==
    LET with == {n \in ns : raw[n][f] # NA}
    IN  {n \in with : \A k \in with : raw[k].effective_date <= raw[n].effective_date}

\* C15: item_name and category of a metrics row are those of the most recent
\* in-window transaction of the group that has a value, in whatever order the rows
\* came from upstream.
C15_LastSeenIsMostRecent ==
    period # NoPeriod =>
        \A m \in metrics_df :
            LET ns == RowsOf(m.pc_number, m.item_number, period.start_dt, period.end_dt)
            IN  /\ LatestWith(ns, "item_name") # {} =>
                      m.item_name \in {raw[n].item_name : n \in LatestWith(ns, "item_name")}
                /\ LatestWith(ns, "category") # {} =>
                      m.category \in {raw[n].category : n \in LatestWith(ns, "category")}

(***************************************************************************)
(* Cached, paginated loaders: _load_ndcp_data (par_engine.py) and           *)
(* load_all_rows (streamlit_app.py), both under @st.cache_data(ttl=3600)    *)
(*                                                                         *)
(* The rows of the store's table are numbered 0..store_rows-1 in the order *)
(* the store serves them.  A list of rows is kept as the sequence of the   *)
(* id ranges <<first, last>> it concatenates, one per page appended.       *)
(***************************************************************************)
chunk_size == 1000
ttl == 3600

\* a plausible slip: the end of the range taken as exclusive, .range(offset, offset + chunk_size)
PageInclusiveEnd(n, offset) ==
    IF offset >= n THEN <<>> ELSE << <<offset, Min2(offset + chunk_size, n - 1)>> >>

\* .range(offset, offset + chunk_size - 1).execute() on a table of n rows: the
\* rows offset..offset+chunk_size-1 that exist, none when offset is past the end
Page(n, offset) ==
    IF offset >= n THEN <<>> ELSE << <<offset, Min2(offset + chunk_size - 1, n - 1)>> >>

\* the number of rows in a list of rows
RECURSIVE RowCount(_)
RowCount(rows) ==
    IF rows = <<>> THEN 0 ELSE (Head(rows)[2] - Head(rows)[1] + 1) + RowCount(Tail(rows))

\* a plausible slip: the cache keyed by the parameters of the computation too
CacheKeyWithParams(fn, args, params) == <<fn, args, params>>

\* st.cache_data keys an entry by the function and the arguments it was called with
CacheKey(fn, args, params) == <<fn, args>>

\* a cached value that has not expired
Fresh(key) == key \in DOMAIN cache /\ now - cache[key].stored_at < ttl

\* load_all_rows wraps the page read in try/except, reports the error and breaks;
\* _load_ndcp_data lets the exception leave the function
Catches(fn) == fn = "load_all_rows"

(***************************************************************************)
(* Loader specification: report renders call the cached loaders while the  *)
(* clock advances, page reads may fail, and the user may clear the cache   *)
(***************************************************************************)
MaxStorePages == 2
MaxCalls == 2
NumTicks == 2
TickSeconds == ttl \div 2

\* table sizes at and around the page boundaries
StoreSizes ==
    {k * chunk_size + d : k \in 0..(MaxStorePages - 1), d \in {0, 1}}
    \cup {MaxStorePages * chunk_size}

\* the callers: get_par_for_next_order with its parameters, which calls
\* _load_ndcp_data(), and the home page, which calls load_all_rows(table)
CallSites ==
    { [fn |-> "_load_ndcp_data", args |-> <<>>, params |-> p] :
        p \in { [pc_number |-> "", today |-> FirstToday, window_days |-> 90,
                 safety_percent |-> 20],
                [pc_number |-> "A", today |-> FirstToday + 1, window_days |-> 3,
                 safety_percent |-> 10] } }
    \cup
    { [fn |-> "load_all_rows", args |-> <<"usage_overview">>, params |-> NoCall] }

LoadInit ==
    /\ store_rows \in StoreSizes
    /\ load = NoLoad
    /\ cache = NoEntries
    /\ now = 0
    /\ calls = <<>>
    /\ clears = 0
    /\ all_data = <<>>
    /\ norm = <<>>
    /\ period = NoPeriod
    /\ metrics_df = {}
    /\ today = 0
    /\ ctx = NoCtx
    /\ raw = <<>>
    /\ call = NoCall
    /\ result = NoResult
    /\ LaterAtRest

otherVars == <<today, ctx, raw, call, result, norm, period, metrics_df, laterVars>>

\* a call of a cached loader: a fresh entry is returned without running the
\* function; otherwise the function starts with all_data = [] and offset = 0
CallLoader ==
    /\ load.status = "idle"
    /\ Len(calls) < MaxCalls
    /\ \E site \in CallSites :
          LET key == CacheKey(site.fn, site.args, site.params)
              hit == Fresh(key)
          IN  /\ load' = [ fn |-> site.fn, args |-> site.args, params |-> site.params,
                           status |-> IF hit THEN "returned" ELSE "paging",
                           offset |-> 0, requests |-> <<>> ]
              /\ all_data' = IF hit THEN cache[key].value ELSE <<>>
              /\ calls' = Append(calls, [ fn |-> site.fn, params |-> site.params,
                                          at |-> now, epoch |-> clears, hit |-> hit,
                                          stored_at |-> -1 ])
    /\ UNCHANGED <<store_rows, cache, now, clears, otherVars>>

\* the function has returned all_data: st.cache_data stores it under the key
Stored(value) ==
    /\ cache' = (CacheKey(load.fn, load.args, load.params) :>
                    [value |-> value, stored_at |-> now]) @@ cache
    /\ calls' = [calls EXCEPT ![Len(calls)].stored_at = now]

\* one pass of the while loop: the page at offset is requested; the read fails, or
\* returns no row (break), or returns rows that are appended
RequestPage ==
    /\ load.status = "paging"
    /\ \E ok \in BOOLEAN :
          LET chunk == Page(store_rows, load.offset)
              req   == [offset |-> load.offset, ok |-> ok,
                        rows |-> IF ok THEN RowCount(chunk) ELSE 0]
          IN  IF ~ok /\ ~Catches(load.fn)
              THEN \* the exception leaves the function: nothing is cached
                   /\ load' = [load EXCEPT !.status = "raised",
                                           !.requests = Append(@, req)]
                   /\ all_data' = <<>>
                   /\ UNCHANGED <<cache, calls>>
              ELSE IF ~ok \/ chunk = <<>>
              THEN \* break: the rows read so far are returned
                   /\ load' = [load EXCEPT !.status = "returned",
                                           !.requests = Append(@, req)]
                   /\ Stored(all_data)
                   /\ UNCHANGED all_data
              ELSE /\ load' = [load EXCEPT !.offset = @ + chunk_size,
                                           !.requests = Append(@, req)]
                   /\ all_data' = all_data \o chunk
                   /\ UNCHANGED <<cache, calls>>
    /\ UNCHANGED <<store_rows, now, clears, otherVars>>

\* the report has rendered (or shown the exception)
LoaderDone ==
    /\ load.status \in {"returned", "raised"}
    /\ load' = NoLoad
    /\ all_data' = <<>>
    /\ UNCHANGED <<store_rows, cache, now, calls, clears, otherVars>>

\* the Clear Cache button: st.cache_data.clear(), then a rerun
ClearCache ==
    /\ load.status = "idle"
    /\ clears < MaxCalls
    /\ cache # NoEntries
    /\ cache' = NoEntries
    /\ clears' = clears + 1
    /\ UNCHANGED <<store_rows, load, now, calls, all_data, otherVars>>

Tick ==
    /\ now < NumTicks * TickSeconds
    /\ now' = now + TickSeconds
    /\ UNCHANGED <<store_rows, load, cache, calls, clears, all_data, otherVars>>

LoadNext == CallLoader \/ RequestPage \/ LoaderDone \/ ClearCache \/ Tick

SpecLoad == LoadInit /\ [][LoadNext]_vars

IsNdcpCall(i) == calls[i].fn = "_load_ndcp_data"

\* the bulk read of call i was completed and cached, and call j is made in its
\* TTL with no clear in between
InTtlOf(i, j) ==
    /\ i < j
    /\ IsNdcpCall(i)
    /\ ~calls[i].hit
    /\ calls[i].stored_at >= 0
    /\ calls[j].epoch = calls[i].epoch
    /\ calls[j].at < calls[i].stored_at + ttl

\* C16: the table of _load_ndcp_data is cached under a key without the parameters
\* of get_par_for_next_order: a call made within the TTL of a completed bulk read,
\* with no clear in between, reads nothing from the store whatever its parameters
\* are; every other call (first, after expiry, after a clear) makes a full read
\* from offset 0.
C16_OneBulkReadPerTtl ==
    /\ \A i, j \in 1..Len(calls) : (IsNdcpCall(j) /\ InTtlOf(i, j)) => calls[j].hit
    /\ \A j \in 1..Len(calls) :
          (IsNdcpCall(j) /\ calls[j].hit) => \E i \in 1..Len(calls) : InTtlOf(i, j)
    /\ (load.fn = "_load_ndcp_data" /\ load.status = "returned"
            /\ ~calls[Len(calls)].hit) =>
          /\ load.requests[1].offset = 0
          /\ RowCount(all_data) = store_rows

\* a second call with other parameters, half an hour after the read of the first,
\* served from the cache
C16_Witness ==
    /\ Len(calls) = 2
    /\ InTtlOf(1, 2)
    /\ IsNdcpCall(2)
    /\ calls[2].params # calls[1].params
    /\ calls[2].at = calls[1].stored_at + TickSeconds
    /\ calls[2].hit
    /\ load.requests = <<>>
    /\ store_rows > chunk_size
    /\ RowCount(all_data) = store_rows

\* C17: a page of fewer than 1000 rows, empty or not, is the last page the loader
\* requests.
C17_StopsAtShortPage ==
    \A k \in 1..Len(load.requests) :
        (load.requests[k].ok /\ load.requests[k].rows < chunk_size) =>
            k = Len(load.requests)

\* C18: a load in which a page read failed returns no table and caches none: every
\* table returned to a report, and every cache entry, is a complete pull.
C18_NoPartialTable ==
    /\ (\E k \in 1..Len(load.requests) : ~load.requests[k].ok) => load.status = "raised"
    /\ load.status = "returned" => RowCount(all_data) = store_rows
    /\ \A key \in DOMAIN cache : RowCount(cache[key].value) = store_rows

\* the loop of _load_ndcp_data runs on once the function is called
SpecLoadLive == SpecLoad /\ WF_vars(RequestPage)

\* the rows lo..hi, each once, in order
RECURSIVE InOrderFrom(_, _)
InOrderFrom(rows, lo) ==
    IF rows = <<>> THEN TRUE
    ELSE /\ Head(rows)[1] = lo
         /\ Head(rows)[2] >= lo
         /\ InOrderFrom(Tail(rows), Head(rows)[2] + 1)

PagesRead == load.fn = "_load_ndcp_data" /\ load.requests # <<>>

\* C23: against an unchanging table of N rows the loop of _load_ndcp_data ends; its
\* k-th request is at offset (k - 1) * 1000, so no offset is requested twice, and
\* there are at most ceil(N / 1000) + 1 of them; the table it returns holds the rows
\* 0 .. N - 1, each once, in offset order.
C23_PaginationExact ==
    /\ [](load.fn = "_load_ndcp_data" =>
            /\ \A k \in 1..Len(load.requests) :
                    load.requests[k].offset = (k - 1) * chunk_size
            /\ Len(load.requests) <= (store_rows + chunk_size - 1) \div chunk_size + 1
            /\ load.status = "returned" =>
                    /\ InOrderFrom(all_data, 0)
                    /\ RowCount(all_data) = store_rows)
    /\ (load.status = "paging" ~> load.status # "paging")

\* a table of 1001 rows was read in three requests and returned
C23_Witness ==
    /\ PagesRead
    /\ load.status = "returned"
    /\ store_rows = chunk_size + 1
    /\ Len(load.requests) = 3
    /\ all_data = << <<0, chunk_size - 1>>, <<chunk_size, chunk_size>> >>

(***************************************************************************)
(* Configuration specification: get_par_for_next_order called with window  *)
(* lengths and safety percents at and past the edges, on tables with       *)
(* credit lines                                                            *)
(***************************************************************************)
EdgeTxns ==
    [ pc_number : {"A"}, item_number : {10023}, item_name : ItemNames,
      category : Categories, effective_date : TxnDates, qty_effective : EdgeQtys ]

RECURSIVE EdgeTablesOfLen(_)
EdgeTablesOfLen(n) ==
    IF n = 0 THEN {<<>>}
    ELSE {Append(t, x) : t \in EdgeTablesOfLen(n - 1), x \in EdgeTxns}

ConfigInit ==
    /\ raw \in UNION {EdgeTablesOfLen(n) : n \in 0..MaxTxns}
    /\ call = NoCall
    /\ result = NoResult
    /\ today = 0
    /\ ctx = NoCtx
    /\ all_data = <<>>
    /\ norm = <<>>
    /\ period = NoPeriod
    /\ metrics_df = {}
    /\ LoadAtRest
    /\ LaterAtRest

CallWithConfig ==
    /\ result.status = "none"
    /\ \E t \in TodayDays, w \in EdgeWindows, sp \in EdgeSafetyPercents :
          /\ call' = [pc_number |-> "", today |-> t, window_days |-> w,
                      safety_percent |-> sp]
          /\ result' = get_par_for_next_order(raw, "", t, w, sp)
    /\ UNCHANGED <<raw, today, ctx, all_data, norm, period, metrics_df, loadVars, laterVars>>

ConfigNext == CallWithConfig \/ RenderDone

SpecConfig == ConfigInit /\ [][ConfigNext]_vars

\* C19: a call with window_days <= 0 or safety_percent < 0 ends in an error and
\* gives no par results.
C19_InvalidConfigRejected ==
    (Called /\ (call.window_days <= 0 \/ call.safety_percent < 0)) =>
        /\ result.status # "returned"
        /\ result.par_df = {}

\* C20: par_quantity and ly_par_quantity are integers >= 0 in every returned row.
C20_ParNeverNegative ==
    result.status = "returned" =>
        \A r \in result.par_df : r.par_quantity \in Nat /\ r.ly_par_quantity \in Nat

\* a returned row with a safety percent below -100 on a positive total, clipped to
\* 0, and no year-ago data; and one with a negative total under a positive safety
C20_Witness ==
    /\ result.status = "returned"
    /\ \E r \in result.par_df :
          \/ /\ call.safety_percent = -150
             /\ r.total_qty = Num(90)
             /\ r.ly_total_qty = NoNum
             /\ r.par_quantity = 0
             /\ r.ly_par_quantity = 0
          \/ /\ call.safety_percent = 20
             /\ r.total_qty = Num(-90)
             /\ IsNaN(r.ly_daily_usage_rate)
             /\ r.par_quantity = 0

\* C27: a call with window_days <= 0 on a loaded table returns two empty tables: both
\* windows are empty, so no metric row, and with it no daily_usage_rate, is computed;
\* every row that is returned was divided by a window length > 0.
C27_NoDivisionByZeroWindow ==
    Called =>
        /\ (call.window_days <= 0 => result = Returned({}, {}))
        /\ \A r \in result.par_df : call.window_days > 0

\* window_days = 0 on a table that has a row the day before today
C27_Witness ==
    /\ Called
    /\ call.window_days = 0
    /\ \E i \in 1..Len(raw) : raw[i].effective_date = call.today - 1
    /\ result = Returned({}, {})

(***************************************************************************)
(* Year-window specification: get_par_for_next_order called with windows   *)
(* about a year long, on days before and after 29 February                 *)
(***************************************************************************)
YearTodays == {Ymd2Ord(2024, 2, 28), Ymd2Ord(2024, 2, 29), Ymd2Ord(2024, 3, 1)}

\* transactions the day before a today, and 365 and 366 days before one
YearTxnDates == {t - d : t \in YearTodays, d \in {1, 365, 366}}

YearTxns ==
    [ pc_number : {"A"}, item_number : {10023}, item_name : ItemNames,
      category : Categories, effective_date : YearTxnDates, qty_effective : {90} ]

RECURSIVE YearTablesOfLen(_)
YearTablesOfLen(n) ==
    IF n = 0 THEN {<<>>}
    ELSE {Append(t, x) : t \in YearTablesOfLen(n - 1), x \in YearTxns}

YearInit ==
    /\ raw \in UNION {YearTablesOfLen(n) : n \in 0..MaxTxns}
    /\ call = NoCall
    /\ result = NoResult
    /\ today = 0
    /\ ctx = NoCtx
    /\ all_data = <<>>
    /\ norm = <<>>
    /\ period = NoPeriod
    /\ metrics_df = {}
    /\ LoadAtRest
    /\ LaterAtRest

CallAcrossYear ==
    /\ result.status = "none"
    /\ \E t \in YearTodays, w \in YearWindows :
          /\ call' = [pc_number |-> "", today |-> t, window_days |-> w,
                      safety_percent |-> 20]
          /\ result' = get_par_for_next_order(raw, "", t, w, 20)
    /\ UNCHANGED <<raw, today, ctx, all_data, norm, period, metrics_df, loadVars, laterVars>>

YearNext == CallAcrossYear \/ RenderDone

SpecYear == YearInit /\ [][YearNext]_vars

OrdOf(iso) == Ymd2Ord(iso[1], iso[2], iso[3])

\* the totals of row r are the sums over the transactions of its store and item in
\* the two windows the row reports
SumsOverReportedWindows(r) ==
    LET cur == RowsOf(r.pc_number, r.item_number,
                      OrdOf(r.current_window_start), OrdOf(r.current_window_end))
        ly  == RowsOf(r.pc_number, r.item_number,
                      OrdOf(r.ly_window_start), OrdOf(r.ly_window_end))
    IN  /\ r.total_qty = (IF cur = {} THEN NoNum ELSE Num(QtyOver(cur)))
        /\ r.ly_total_qty = (IF ly = {} THEN NoNum ELSE Num(QtyOver(ly)))
        /\ OrdOf(r.current_window_end) = call.today
        /\ OrdOf(r.current_window_start) = call.today - call.window_days
        /\ OrdOf(r.ly_window_start) = OrdOf(r.ly_window_end) - call.window_days

\* the positions in raw of the transactions counted in both totals of row r
InBothWindows(r) ==
    RowsOf(r.pc_number, r.item_number,
           OrdOf(r.current_window_start), OrdOf(r.current_window_end))
    \cap RowsOf(r.pc_number, r.item_number,
                OrdOf(r.ly_window_start), OrdOf(r.ly_window_end))

\* the two windows of row r have a day in common
WindowsOverlap(r) == OrdOf(r.ly_window_end) > OrdOf(r.current_window_start)

\* C28 as stated: for window_days in 1..365 the two windows are disjoint and no
\* transaction is counted in both totals; for every window_days > 365 the windows
\* overlap.
C28_DisjointUpTo365 ==
    result.status = "returned" =>
        \A r \in result.par_df :
            /\ SumsOverReportedWindows(r)
            /\ call.window_days \in 1..365 => ~WindowsOverlap(r) /\ InBothWindows(r) = {}
            /\ call.window_days > 365 => WindowsOverlap(r)

\* C28 amended: for window_days in 1..365 the two windows are disjoint and no
\* transaction is counted in both totals; for window_days > 365 the windows overlap
\* and every transaction dated in [today - window_days, ly_end) is counted in both,
\* except for window_days = 366 when ly_end is 366 days before today (a 29 February
\* lies between): then the windows are disjoint as well.
C28_DisjointUpToYearLength ==
    result.status = "returned" =>
        \A r \in result.par_df :
            LET year == call.today - OrdOf(r.ly_window_end)
            IN  /\ SumsOverReportedWindows(r)
                /\ year \in {365, 366}
                /\ call.window_days \in 1..365 =>
                        ~WindowsOverlap(r) /\ InBothWindows(r) = {}
                /\ call.window_days > 365 =>
                        IF call.window_days = 366 /\ year = 366
                        THEN ~WindowsOverlap(r) /\ InBothWindows(r) = {}
                        ELSE /\ WindowsOverlap(r)
                             /\ InBothWindows(r) =
                                    RowsOf(r.pc_number, r.item_number,
                                           OrdOf(r.current_window_start),
                                           OrdOf(r.ly_window_end))

\* window_days = 366 on 2024-03-01: the current window starts where the year-ago
\* window ends, with a transaction counted on each side and none in both
C28_Witness ==
    /\ result.status = "returned"
    /\ call.window_days = 366
    /\ call.today = Ymd2Ord(2024, 3, 1)
    /\ \E r \in result.par_df :
          /\ r.current_window_start = <<2023, 3, 1>>
          /\ r.ly_window_end = <<2023, 3, 1>>
          /\ r.total_qty = Num(90)
          /\ r.ly_total_qty = Num(90)
          /\ InBothWindows(r) = {}

(***************************************************************************)
(* Delivery specification: _next_delivery_after applied to every day of a  *)
(* range, whatever its weekday                                             *)
(***************************************************************************)
DeliveryInit ==
    /\ delivery_from \in CadenceDays
    /\ next_delivery = 0
    /\ UploadAtRest
    /\ AuthAtRest
    /\ EngineAtRest

engineVars == <<today, ctx, raw, call, result, all_data, norm, period, metrics_df, loadVars>>

CallNextDeliveryAfter ==
    /\ next_delivery = 0
    /\ next_delivery' = _next_delivery_after(delivery_from)
    /\ UNCHANGED <<delivery_from, uploadVars, authVars, engineVars>>

NextInput ==
    /\ delivery_from + 1 \in CadenceDays
    /\ delivery_from' = delivery_from + 1
    /\ next_delivery' = 0
    /\ UNCHANGED <<uploadVars, authVars, engineVars>>

DeliveryNext == CallNextDeliveryAfter \/ NextInput

SpecDelivery == DeliveryInit /\ [][DeliveryNext]_vars

IsDeliveryDay(d) == Weekday(d) \in {MON, THU}

\* C30: for every date x, of any weekday, _next_delivery_after(x) is the first Monday
\* or Thursday strictly after x: it is after x, it is a Monday or a Thursday, and no
\* day strictly between x and it is one.
C30_FirstDeliveryDayAfter ==
    next_delivery # 0 =>
        /\ next_delivery > delivery_from
        /\ IsDeliveryDay(next_delivery)
        /\ \A d \in (delivery_from + 1)..(next_delivery - 1) : ~IsDeliveryDay(d)

\* a Friday (the fallback branch): the Monday three days on, with the Thursday six
\* days on passed over
C30_Witness ==
    /\ delivery_from = Ymd2Ord(2024, 3, 1)
    /\ Weekday(delivery_from) = 4
    /\ next_delivery = Ymd2Ord(2024, 3, 4)

(***************************************************************************)
(* Upload specification: upload_table on the labour table, batch by batch, *)
(* each request to the store one step; text is a sequence of characters    *)
(***************************************************************************)
\* rows per request: UPLOAD_CHUNK_SIZE, set low so that an upload has several batches
CHUNK == 2

\* DRY_RUN of the environment, 0 unless set
DRY_RUN == FALSE

MaxUploadRows == 3
MaxStoredRows == 2

\* store numbers are digits, dates ISO dates, and an hour range the ingest could not
\* parse is kept as it was written
LabourKeys ==
    { << <<"7">>, <<"0", "8", "-", "2", "0">>, <<"8">> >>,
      << <<"7">>, <<"0", "8", "-", "2", "0">>, <<"8", "|", "9">> >>,
      << <<"9">>, <<"0", "8", "-", "2", "0">>, <<"8">> >> }

LabourRows ==
    { [pc_number |-> k[1], date |-> k[2], hour_range |-> k[3], scheduled_hours |-> h] :
        k \in LabourKeys, h \in {1, 2} }

KeyOf(r) == <<r.pc_number, r.date, r.hour_range>>

\* the lists of rows main() hands to upload_table: deduplicated on the key columns
RECURSIVE UploadsOfLen(_)
UploadsOfLen(n) ==
    IF n = 0 THEN {<<>>}
    ELSE {Append(rows, r) : rows \in UploadsOfLen(n - 1), r \in LabourRows}

DistinctKeys(rows) ==
    \A i, j \in 1..Len(rows) : KeyOf(rows[i]) = KeyOf(rows[j]) => i = j

UploadInputs ==
    {rows \in UNION {UploadsOfLen(n) : n \in 0..MaxUploadRows} : DistinctKeys(rows)}

\* the number of rows of table t with key k
CountOfKey(t, k) ==
    LET of_key == {r \in LabourRows : KeyOf(r) = k}
        RECURSIVE Sum(_)
        Sum(rs) == IF rs = {} THEN 0
                   ELSE LET r == CHOOSE x \in rs : TRUE IN t[r] + Sum(rs \ {r})
    IN  Sum(of_key)

TotalRows(t) ==
    LET RECURSIVE Sum(_)
        Sum(rs) == IF rs = {} THEN 0
                   ELSE LET r == CHOOSE x \in rs : TRUE IN t[r] + Sum(rs \ {r})
    IN  Sum(LabourRows)

\* the tables the store can hold before the upload: at most one row per key under the
\* unique index, any rows without it
StoredTables(indexed) ==
    {t \in [LabourRows -> 0..1] :
        /\ TotalRows(t) <= MaxStoredRows
        /\ indexed => \A k \in LabourKeys : CountOfKey(t, k) <= 1}

\* rows[i:i+CHUNK]
BatchAt(rows, i) == SubSeq(rows, i + 1, Min2(i + CHUNK, Len(rows)))

\* f"{pc}|{dt}|{hr}"
KeyString(k) == k[1] \o <<"|">> \o k[2] \o <<"|">> \o k[3]

\* the position of the first "|" of s at or after i, 0 when there is none
RECURSIVE FirstBar(_, _)
FirstBar(s, i) ==
    IF i > Len(s) THEN 0 ELSE IF s[i] = "|" THEN i ELSE FirstBar(s, i + 1)

\* ks.split("|", 2) of a string with two bars or more
SplitKey(ks) ==
    LET a == FirstBar(ks, 1)
        b == FirstBar(ks, a + 1)
    IN  <<SubSeq(ks, 1, a - 1), SubSeq(ks, a + 1, b - 1), SubSeq(ks, b + 1, Len(ks))>>

\* the keys _merge_without_index collects from a batch (those with no empty part), as
\* the key strings _do_delete_keys builds from them
RECURSIVE KeyStrings(_)
KeyStrings(rows) ==
    IF rows = <<>> THEN <<>>
    ELSE LET k == KeyOf(Head(rows))
         IN  (IF k[1] # <<>> /\ k[2] # <<>> /\ k[3] # <<>> THEN <<KeyString(k)>> ELSE <<>>)
             \o KeyStrings(Tail(rows))

\* upsert(rows, on_conflict="pc_number,date,hour_range") under the unique index
RECURSIVE Upserted(_, _)
Upserted(t, rows) ==
    IF rows = <<>> THEN t
    ELSE LET r == Head(rows)
         IN  Upserted([x \in LabourRows |->
                          IF KeyOf(x) = KeyOf(r) THEN (IF x = r THEN 1 ELSE 0) ELSE t[x]],
                      Tail(rows))

\* a plausible slip: the filter on hour_range forgotten
DeletedByPcAndDate(t, pc, dt, hr) ==
    [x \in LabourRows |-> IF x.pc_number = pc /\ x.date = dt THEN 0 ELSE t[x]]

\* .delete().eq("pc_number", pc).eq("date", dt).eq("hour_range", hr)
Deleted(t, pc, dt, hr) ==
    [x \in LabourRows |->
        IF x.pc_number = pc /\ x.date = dt /\ x.hour_range = hr THEN 0 ELSE t[x]]

\* insert(rows) into a table without the unique index
RECURSIVE Inserted(_, _)
Inserted(t, rows) ==
    IF rows = <<>> THEN t
    ELSE Inserted([t EXCEPT ![Head(rows)] = @ + 1], Tail(rows))

UploadInit ==
    /\ has_index \in BOOLEAN
    /\ table \in StoredTables(has_index)
    /\ upload = NoUpload
    /\ DeliveryAtRest
    /\ AuthAtRest
    /\ EngineAtRest

\* upload_table(table, rows, conflict_cols) is called: nothing to do for no rows,
\* and under DRY_RUN every batch is only printed
CallUploadTable ==
    /\ upload.status = "idle"
    /\ \E rows \in UploadInputs :
          upload' = [upload EXCEPT
                        !.status = IF rows = <<>> \/ DRY_RUN THEN "done" ELSE "running",
                        !.phase  = IF rows = <<>> \/ DRY_RUN THEN "none" ELSE "upsert",
                        !.rows = rows, !.i = 0, !.runs = 1, !.before = table]
    /\ UNCHANGED <<table, has_index, deliveryVars, authVars, engineVars>>

\* the batch is uploaded: the loop goes on to the next batch or ends
BatchDone(u) ==
    IF u.i + CHUNK >= Len(u.rows)
    THEN [u EXCEPT !.status = "done", !.phase = "none", !.i = @ + CHUNK]
    ELSE [u EXCEPT !.phase = "upsert", !.i = @ + CHUNK]

Logged(u, op, outcome) == [u EXCEPT !.requests = Append(@, [op |-> op, outcome |-> outcome])]

Raising(u, op) == [Logged(u, op, "error") EXCEPT !.status = "raised", !.phase = "none"]

\* _do_upsert of the batch: it succeeds under the unique index, fails with 42P10
\* without it (the fallback follows), or fails otherwise (re-raised)
DoUpsert ==
    /\ upload.status = "running"
    /\ upload.phase = "upsert"
    /\ LET batch == BatchAt(upload.rows, upload.i)
           keys  == KeyStrings(batch)
       IN  \/ /\ has_index
              /\ table' = Upserted(table, batch)
              /\ upload' = BatchDone(Logged(upload, "upsert", "ok"))
           \/ /\ ~has_index
              /\ upload' = [Logged(upload, "upsert", "42P10") EXCEPT
                               !.phase = IF keys = <<>> THEN "insert" ELSE "delete",
                               !.pending = keys]
              /\ UNCHANGED table
           \/ /\ upload' = Raising(upload, "upsert")
              /\ UNCHANGED table
    /\ UNCHANGED <<has_index, deliveryVars, authVars, engineVars>>

\* one delete request of _do_delete_keys, for the next key string
DoDelete ==
    /\ upload.status = "running"
    /\ upload.phase = "delete"
    /\ LET key == SplitKey(Head(upload.pending))
       IN  \/ /\ table' = Deleted(table, key[1], key[2], key[3])
              /\ upload' = [Logged(upload, "delete", "ok") EXCEPT
                               !.pending = Tail(@),
                               !.phase = IF Tail(upload.pending) = <<>> THEN "insert"
                                         ELSE "delete"]
           \/ /\ upload' = Raising(upload, "delete")
              /\ UNCHANGED table
    /\ UNCHANGED <<has_index, deliveryVars, authVars, engineVars>>

\* _do_insert of the batch
DoInsert ==
    /\ upload.status = "running"
    /\ upload.phase = "insert"
    /\ \/ /\ table' = Inserted(table, BatchAt(upload.rows, upload.i))
          /\ upload' = BatchDone(Logged(upload, "insert", "ok"))
       \/ /\ upload' = Raising(upload, "insert")
          /\ UNCHANGED table
    /\ UNCHANGED <<has_index, deliveryVars, authVars, engineVars>>

\* the script is run once more on the same file
CallUploadTableAgain ==
    /\ upload.status = "done"
    /\ upload.runs = 1
    /\ upload' = [upload EXCEPT
                     !.status = IF upload.rows = <<>> \/ DRY_RUN THEN "done" ELSE "running",
                     !.phase  = IF upload.rows = <<>> \/ DRY_RUN THEN "none" ELSE "upsert",
                     !.i = 0, !.runs = 2, !.after_first = table]
    /\ UNCHANGED <<table, has_index, deliveryVars, authVars, engineVars>>

UploadNext == CallUploadTable \/ DoUpsert \/ DoDelete \/ DoInsert \/ CallUploadTableAgain

SpecUpload == UploadInit /\ [][UploadNext]_vars

UploadedKeys == {KeyOf(upload.rows[i]) : i \in 1..Len(upload.rows)}

\* C24: when upload_table has completed without raising, by upserts or by the
\* delete-then-insert fallback, the table holds exactly one row for every key of the
\* uploaded rows, the uploaded one; the rows of other keys are as they were; a second
\* run of the same upload leaves the table as the first left it; and an upsert error
\* other than the missing unique index is re-raised with no fallback request after it.
C24_UploadMergesByKey ==
    /\ upload.status = "done" =>
          /\ \A i \in 1..Len(upload.rows) :
                /\ table[upload.rows[i]] = 1
                /\ CountOfKey(table, KeyOf(upload.rows[i])) = 1
          /\ \A r \in LabourRows : KeyOf(r) \notin UploadedKeys => table[r] = upload.before[r]
          /\ upload.runs = 2 => table = upload.after_first
    /\ \A n \in 1..Len(upload.requests) :
          (upload.requests[n].op = "upsert" /\ upload.requests[n].outcome = "error") =>
              /\ n = Len(upload.requests)
              /\ upload.status = "raised"

\* a table without the unique index that held two rows of one key, one of them under
\* the hour range written with a bar, and a row of another key; three rows were
\* uploaded twice in two batches each through the fallback
C24_Witness ==
    /\ upload.status = "done"
    /\ upload.runs = 2
    /\ ~has_index
    /\ Len(upload.rows) = 3
    /\ \E k \in UploadedKeys : CountOfKey(upload.before, k) = 2 /\ k[3] = <<"8", "|", "9">>
    /\ \E n \in 1..Len(upload.requests) : upload.requests[n].op = "delete"

(***************************************************************************)
(* Login specification: the script runs of src/future_update/app.py in one *)
(* browser session: login_with_google first, then the page                 *)
(***************************************************************************)
MaxTokens == 3

Has(d, k) == k \in DOMAIN d

\* d with d[k] = v
With(d, k, v) == [x \in DOMAIN d \cup {k} |-> IF x = k THEN v ELSE d[x]]

\* d after del d[k] for the keys of ks that it has
Without(d, ks) == [x \in DOMAIN d \ ks |-> d[x]]

\* 'user' in st.session_state and st.session_state.user is not None
check_authentication(ss) == Has(ss, "user") /\ ss["user"] # "None"

\* a plausible slip: the state parameter not validated
StateAcceptedAlways(state, ss) == TRUE

\* exchange_code_for_tokens raises unless state == st.session_state.get('oauth_state')
StateMatches(state, ss) == Has(ss, "oauth_state") /\ state = ss["oauth_state"]

\* what Google and the users table answer during a callback
Answers == {"ok", "exchange_failed", "userinfo_failed", "no_user_data"}

\* login_with_google on session state ss and query parameters q: the session state and
\* the query parameters after it, what happened, and whether st.rerun() was called
login_with_google(ss, q, answer) ==
    IF ~(Has(q, "code") /\ Has(q, "state"))
    THEN [ss |-> ss, q |-> q, login |-> "no_callback", rerun |-> FALSE]
    ELSE IF ~StateMatches(q["state"], ss)
    THEN [ss |-> ss, q |-> NoRows, login |-> "invalid_state", rerun |-> FALSE]
    ELSE IF answer \in {"exchange_failed", "userinfo_failed"}
    THEN [ss |-> ss, q |-> NoRows, login |-> answer, rerun |-> FALSE]
    ELSE IF answer = "no_user_data"
    THEN [ss |-> ss, q |-> q, login |-> answer, rerun |-> FALSE]
    ELSE [ss |-> Without(With(With(ss, "user", "user"), "access_token", "token"),
                         {"oauth_state"}),
          q |-> NoRows, login |-> "authenticated", rerun |-> TRUE]

\* logout_user
logout_user(ss) == Without(ss, {"user", "access_token", "oauth_state"})

\* one run of the script, started by trigger: the callback is handled, then the login
\* page or the user page is rendered and the click that started the run is served
RunScript(trigger, q) ==
    \E answer \in Answers :
        LET r == login_with_google(session_state, q, answer)
            last == [trigger |-> trigger, query |-> q, before |-> session_state,
                     mine |-> auth.mine, login |-> r.login, logout |-> FALSE]
            used == IF r.login = "authenticated" THEN Append(auth.used, q["state"])
                    ELSE auth.used
        IN  IF r.rerun
            THEN /\ session_state' = r.ss
                 /\ query_params' = r.q
                 /\ auth' = [auth EXCEPT !.shown = "none", !.rerun = TRUE,
                                         !.used = used, !.last = last]
            ELSE IF ~check_authentication(r.ss)
            THEN \* show_login_page; the button calls get_google_oauth_url
                 IF trigger = "sign_in"
                 THEN /\ session_state' = With(r.ss, "oauth_state", auth.issued + 1)
                      /\ query_params' = r.q
                      /\ auth' = [auth EXCEPT !.issued = @ + 1,
                                              !.mine = Append(@, auth.issued + 1),
                                              !.shown = "login", !.rerun = FALSE,
                                              !.last = last]
                 ELSE /\ session_state' = r.ss
                      /\ query_params' = r.q
                      /\ auth' = [auth EXCEPT !.shown = "login", !.rerun = FALSE,
                                              !.last = last]
            ELSE \* show_user_info; the button calls logout_user and st.rerun
                 IF trigger = "logout"
                 THEN /\ session_state' = logout_user(r.ss)
                      /\ query_params' = r.q
                      /\ auth' = [auth EXCEPT !.shown = "none", !.rerun = TRUE,
                                              !.last = [last EXCEPT !.logout = TRUE]]
                 ELSE /\ session_state' = r.ss
                      /\ query_params' = r.q
                      /\ auth' = [auth EXCEPT !.shown = "user", !.rerun = FALSE,
                                              !.last = last]

\* the query parameters a request can carry: none, or a code and a state in any
\* combination, the state any token
Queries ==
    {NoRows, [code |-> "code"]}
    \cup {[state |-> t] : t \in 1..MaxTokens}
    \cup {[code |-> "code", state |-> t] : t \in 1..MaxTokens}

AuthInit ==
    /\ session_state = NoRows
    /\ query_params = NoRows
    /\ auth = NoAuth
    /\ DeliveryAtRest
    /\ UploadAtRest
    /\ EngineAtRest

\* the browser requests the page with some query parameters: the redirect back from
\* Google, or any link
OpenPage ==
    /\ ~auth.rerun
    /\ \E q \in Queries : RunScript("load", q)
    /\ UNCHANGED <<deliveryVars, uploadVars, engineVars>>

\* "Sign in with Google" is clicked on the login page
ClickSignIn ==
    /\ ~auth.rerun
    /\ auth.shown = "login"
    /\ auth.issued < MaxTokens
    /\ RunScript("sign_in", query_params)
    /\ UNCHANGED <<deliveryVars, uploadVars, engineVars>>

\* "Logout" is clicked in the sidebar
ClickLogout ==
    /\ ~auth.rerun
    /\ auth.shown = "user"
    /\ RunScript("logout", query_params)
    /\ UNCHANGED <<deliveryVars, uploadVars, engineVars>>

\* the run that st.rerun() asked for
Rerun ==
    /\ auth.rerun
    /\ RunScript("rerun", query_params)
    /\ UNCHANGED <<deliveryVars, uploadVars, engineVars>>

\* get_google_oauth_url in another session: a token this session was never given
IssueElsewhere ==
    /\ auth.issued < MaxTokens
    /\ auth' = [auth EXCEPT !.issued = @ + 1]
    /\ UNCHANGED <<session_state, query_params, deliveryVars, uploadVars, engineVars>>

AuthNext == OpenPage \/ ClickSignIn \/ ClickLogout \/ Rerun \/ IssueElsewhere

SpecAuth == AuthInit /\ [][AuthNext]_vars

\* C29: a run sets the session user only in handling a callback whose state is the
\* oauth_state stored in the session, the one get_google_oauth_url issued to it last;
\* a callback with no state or another state sets no user; after a success the stored
\* oauth_state is gone and no state has authenticated twice; after logout_user the
\* session has no user, no access_token and no oauth_state.
C29_OnlyMatchingStateAuthenticates ==
    /\ auth.last.login = "authenticated" =>
          /\ Has(auth.last.query, "state")
          /\ Has(auth.last.before, "oauth_state")
          /\ auth.last.query["state"] = auth.last.before["oauth_state"]
          /\ auth.last.mine # <<>>
          /\ auth.last.query["state"] = auth.last.mine[Len(auth.last.mine)]
          /\ ~Has(session_state, "oauth_state")
          /\ check_authentication(session_state)
    /\ (check_authentication(session_state) /\ ~check_authentication(auth.last.before)) =>
          auth.last.login = "authenticated"
    /\ \A i, j \in 1..Len(auth.used) : auth.used[i] = auth.used[j] => i = j
    /\ Has(session_state, "access_token") => check_authentication(session_state)
    /\ auth.last.logout =>
          DOMAIN session_state \cap {"user", "access_token", "oauth_state"} = {}

\* the second login of the session: sign-in, callback, logout, sign-in, callback
C29_Witness ==
    /\ auth.last.login = "authenticated"
    /\ Len(auth.used) = 2
    /\ Len(auth.mine) = 2
    /\ check_authentication(session_state)

====
